---- MODULE Spec2Model ----
(***************************************************************************)
(* A model of autobkp's incremental backup (src/autobkp/autobkp.py):       *)
(* get_filetree scans the source, backup() writes the new filetree, reads  *)
(* the latest one, runs _backup_sub over both in lock-step and then        *)
(* overwrites the latest filetree.                                         *)
(*                                                                         *)
(* One filesystem, fs, holds the source, the destination and the metadata  *)
(* directory: a path is a sequence of names, a name is a string.  A Python *)
(* dict is a function over strings; a JSON value that is no mapping is     *)
(* NonDict.                                                                *)
(***************************************************************************)
EXTENDS Integers, Sequences, FiniteSets, TLC

VARIABLES
    fs,         \* the filesystem: path -> node
    args,       \* the arguments of backup(): src_path, dst_path, filecmp_shallow
    pc,         \* where backup() stands
    dry_run,    \* the dry_run argument of the current call
    run,        \* number of calls of backup() begun so far (the wall clock)
    edits,      \* the changes made to the source from outside so far, in order
    prev,       \* how the call before the current one went: its dry_run and where it ended
    new_filetree,   \* backup(): {src_filename: filetree} of this run's scan
    old_filetree,   \* backup(): what json_load returned for the latest filetree
    stack,      \* the frames of _backup_sub, innermost last
    counts,     \* backup(): no_skip, no_copy, no_tgz, no_dir once _backup_sub returned
    said,       \* what this run reported: per-entry decisions, summary, errors
    fs0,        \* the filesystem when the current run began
    probe,      \* inputs and result of the decision-table specification
    calls       \* two calls of backup() running at once: caller -> its local state

vars == <<fs, args, pc, dry_run, run, edits, prev, new_filetree, old_filetree,
          stack, counts, said, fs0, probe, calls>>

----------------------------------------------------------------------------
(* Bounds of the model *)

MaxRuns == 2
MaxEdits == 1
MaxMTime == 3
MaxSize == 1
\* symbolic links followed in one path lookup before it fails with ELOOP
MaxHops == 2

(* Program constants *)

\* backup(verbose=4)
verbose == 4
\* _VERBOSEREQDICT_STR_TO_INT
req_fatal == 0
req_err == 1
req_warn == 2
req_note == 3
req_info == 4
\* st_mtime has a finer resolution than the microseconds mtime_px6 keeps
TicksPerMicro == 2

\* the default of gztar_list, and a name that ignore_list holds as well
gztar_list == {".git", ".ipynb_checkpoints"}
ignore_list == {"__pycache__", ".ipynb_checkpoints"}

is_verbose(v, verbose_req) == v >= verbose_req

----------------------------------------------------------------------------
(* Python values *)

EmptyDict == <<>>
NonDict == [nondict_ |-> TRUE]
IsDict(x) == "nondict_" \notin DOMAIN x
Keys(d) == DOMAIN d

RECURSIVE SumOver(_, _)
SumOver(f, S) ==
    IF S = {} THEN 0
    ELSE LET k == CHOOSE k \in S : TRUE IN f[k] + SumOver(f, S \ {k})

Max2(a, b) == IF a >= b THEN a ELSE b

RECURSIVE MaxOver(_, _, _)
MaxOver(f, S, initial) ==
    IF S = {} THEN initial
    ELSE LET k == CHOOSE k \in S : TRUE IN Max2(f[k], MaxOver(f, S \ {k}, initial))

----------------------------------------------------------------------------
(* Timestamps *)

\* int(datetime.utcfromtimestamp(timestamp).timestamp()*1e6): whole microseconds
_get_timestamp_px6(timestamp) == timestamp \div TicksPerMicro

\* strftime("%Y%m%d%H%M%S%f") of the microsecond count
_get_timestamp_str_from_px6(timestamp_px6) == ToString(timestamp_px6)

\* strftime("%Y%m%d%H%M%S%f") of time.time()
_get_timestamp_str(timestamp) == ToString(timestamp)

----------------------------------------------------------------------------
(* The filesystem *)

Parent(p) == SubSeq(p, 1, Len(p) - 1)
Base(p) == p[Len(p)]
IsPrefix(p, q) == Len(p) <= Len(q) /\ SubSeq(q, 1, Len(p)) = p
Under(p, q) == IsPrefix(p, q) /\ p # q

FileNode(size, mtime, data) ==
    [type |-> "file", size |-> size, mtime |-> mtime, readable |-> TRUE, data |-> data]
DirNode(mtime) ==
    [type |-> "dir", size |-> 1, mtime |-> mtime, readable |-> TRUE, data |-> EmptyDict]
\* a symbolic link: the path it points to is its content
LinkNode(target, mtime) ==
    [type |-> "link", size |-> 1, mtime |-> mtime, readable |-> TRUE, data |-> [target |-> target]]

lexists(F, p) == p \in DOMAIN F
islink(F, p) == lexists(F, p) /\ F[p].type = "link"

\* the path lookup of the system: every symbolic link on the way is replaced
\* by the path it points to; [err, path], err "ELOOP" after too many links
RECURSIVE Resolve(_, _, _)
Resolve(F, p, hops) ==
    LET links == {i \in 1..Len(p) : islink(F, SubSeq(p, 1, i))}
    IN IF links = {} THEN [err |-> "", path |-> p]
       ELSE IF hops = 0 THEN [err |-> "ELOOP", path |-> p]
       ELSE LET i == CHOOSE i \in links : \A j \in links : i <= j
            IN Resolve(F, F[SubSeq(p, 1, i)].data.target \o SubSeq(p, i + 1, Len(p)), hops - 1)

\* os.stat(p), following links: [err, node]
stat(F, p) ==
    IF p \in DOMAIN F /\ F[p].type # "link" THEN [err |-> "", node |-> F[p]]
    ELSE LET r == Resolve(F, p, MaxHops)
         IN IF r.err # "" THEN [err |-> "OSError"]
            ELSE IF r.path \notin DOMAIN F THEN [err |-> "FileNotFoundError"]
            ELSE [err |-> "", node |-> F[r.path]]

isdir(F, p) == stat(F, p).err = "" /\ stat(F, p).node.type = "dir"
isfile(F, p) == stat(F, p).err = "" /\ stat(F, p).node.type = "file"
\* os.listdir(p) of a directory, or of a link to one
listdir(F, p) ==
    LET d == IF p \in DOMAIN F /\ F[p].type # "link" THEN p ELSE Resolve(F, p, MaxHops).path
    IN {Base(q) : q \in {r \in DOMAIN F : Len(r) = Len(d) + 1 /\ Parent(r) = d}}
Subtree(F, p) == {q \in DOMAIN F : IsPrefix(p, q)}

\* open(p, 'rb'): the exception it raises, "" when the file opens
open_rb(F, p) ==
    LET st == stat(F, p)
    IN IF st.err # "" THEN st.err
       ELSE IF st.node.type = "dir" THEN "IsADirectoryError"
       ELSE IF ~st.node.readable THEN "PermissionError"
       ELSE ""

\* the directory holding p gets a new mtime when an entry is made or removed
TouchParent(F, p, now) ==
    IF Len(p) > 0 /\ Parent(p) \in DOMAIN F
    THEN [F EXCEPT ![Parent(p)].mtime = now] ELSE F

WriteFile(F, p, node, now) ==
    IF p \in DOMAIN F THEN [F EXCEPT ![p] = node]
    ELSE TouchParent((p :> node) @@ F, p, now)

\* os.makedirs(p): every missing directory down to p
RECURSIVE makedirs(_, _, _)
makedirs(F, p, now) ==
    IF p \in DOMAIN F THEN F
    ELSE LET G == IF Len(p) = 0 THEN F ELSE makedirs(F, Parent(p), now)
         IN TouchParent((p :> DirNode(now)) @@ G, p, now)

\* os.makedirs(p) raises when p, or a directory it must pass through, is no directory
makedirs_raises(F, p) ==
    \E i \in 0..Len(p) : LET q == SubSeq(p, 1, i) IN q \in DOMAIN F /\ F[q].type # "dir"

----------------------------------------------------------------------------
(* get_filetree: the scan *)

RetNone == [ret |-> "None"]
Raise(exc) == [ret |-> "raise", exc |-> exc]
RetTree(src_filename, filetree) == [ret |-> "ok", name |-> src_filename, ft |-> filetree]

\* _get_dir_metadata: total size and newest mtime below src_path, through
\* os.path.getsize, getmtime and isdir, all of which follow links; os.listdir
\* raises PermissionError on a directory without read access
RECURSIVE _get_dir_metadata(_, _)
_get_dir_metadata(F, src_path) ==
    LET st == stat(F, src_path)
    IN IF st.err # "" THEN Raise(st.err)
       ELSE IF st.node.type # "dir"
       THEN [ret |-> "ok", size |-> st.node.size, mtime |-> st.node.mtime]
       ELSE IF ~st.node.readable THEN Raise("PermissionError")
       ELSE LET names == listdir(F, src_path)
                new_data == [filename \in names |-> _get_dir_metadata(F, Append(src_path, filename))]
                failed == {filename \in names : new_data[filename].ret = "raise"}
            IN IF failed # {}
               THEN new_data[CHOOSE filename \in failed : TRUE]
               ELSE [ret |-> "ok",
                     size |-> st.node.size + SumOver([n \in names |-> new_data[n].size], names),
                     mtime |-> MaxOver([n \in names |-> new_data[n].mtime], names, st.node.mtime)]

LeafTree(type, size, compr_mth, mtime_px6) ==
    [type |-> type, no_f |-> 1, size |-> size, compr_mth |-> compr_mth,
     mtime_px6 |-> mtime_px6, mtime_utc |-> _get_timestamp_str_from_px6(mtime_px6)]

\* no_f of a directory without its own 1
dir_no_f_children(sub_no_f) == sub_no_f
\* line 275: ans['no_f'] + np.sum(..), ans['no_f'] being 1
dir_no_f(sub_no_f) == 1 + sub_no_f

\* size of a directory without its own st_size
dir_size_children(st_size, sub_size) == sub_size
\* line 278: ans_stat.st_size + int(np.sum(..))
dir_size(st_size, sub_size) == st_size + sub_size

\* no name taken as one of gztar_list
in_gztar_list_never(src_filename) == FALSE
\* line 263: src_filename (not) in gztar_list
in_gztar_list(src_filename) == src_filename \in gztar_list

RECURSIVE get_filetree(_, _, _)
get_filetree(F, src_path, src_filename) ==
    IF src_filename \in ignore_list THEN RetNone
    ELSE IF ~lexists(F, src_path) THEN RetNone
    ELSE IF isfile(F, src_path) \/ islink(F, src_path) THEN
        \* open(src_path, 'rb'): PermissionError leaves the entry out, any other
        \* exception is not caught
        IF open_rb(F, src_path) = "PermissionError" THEN RetNone
        ELSE IF open_rb(F, src_path) # "" THEN Raise(open_rb(F, src_path))
        ELSE LET ans_stat == stat(F, src_path).node
             IN RetTree(src_filename,
                   LeafTree(IF isfile(F, src_path) THEN "file" ELSE "link",
                            ans_stat.size, "gzip", _get_timestamp_px6(ans_stat.mtime)))
    ELSE IF isdir(F, src_path) THEN
        IF ~in_gztar_list(src_filename) THEN
            IF ~F[src_path].readable THEN Raise("PermissionError")
            ELSE LET names == {filename \in listdir(F, src_path) : filename \notin ignore_list}
                     sub_files_list == [filename \in names |->
                                          get_filetree(F, Append(src_path, filename), filename)]
                     failed == {filename \in names : sub_files_list[filename].ret = "raise"}
                     kept == {filename \in names : sub_files_list[filename].ret = "ok"}
                     sub_files == [filename \in kept |-> sub_files_list[filename].ft]
                     mtime_px6 == Max2(_get_timestamp_px6(F[src_path].mtime),
                                       MaxOver([n \in kept |-> sub_files[n].mtime_px6], kept, 0))
                 IN IF failed # {}
                    THEN sub_files_list[CHOOSE filename \in failed : TRUE]
                    ELSE RetTree(src_filename,
                           [type |-> "dir",
                            no_f |-> dir_no_f(SumOver([n \in kept |-> sub_files[n].no_f], kept)),
                            size |-> dir_size(F[src_path].size,
                                              SumOver([n \in kept |-> sub_files[n].size], kept)),
                            compr_mth |-> "",
                            mtime_px6 |-> mtime_px6,
                            mtime_utc |-> _get_timestamp_str_from_px6(mtime_px6),
                            sub_files |-> sub_files])
        ELSE LET data == _get_dir_metadata(F, src_path)
             IN IF data.ret = "raise" THEN data
                ELSE RetTree(src_filename,
                       LeafTree("dir", data.size, "gztar", _get_timestamp_px6(data.mtime))
                         @@ [sub_files |-> EmptyDict])
    ELSE RetTree(src_filename, LeafTree("", 0, "", 0))

----------------------------------------------------------------------------
(* json_dump / json_load of a filetree document *)

Garbage == [garbage_ |-> TRUE]

RECURSIVE HasTypeKey(_)
\* _json_decode meets a '_type_' key somewhere in the document
HasTypeKey(obj) ==
    /\ IsDict(obj)
    /\ \/ "_type_" \in Keys(obj)
       \/ \E k \in Keys(obj) \ {"_meta_"} :
             /\ IsDict(obj[k])
             /\ \/ "_type_" \in Keys(obj[k])
                \/ "sub_files" \in Keys(obj[k]) /\ HasTypeKey(obj[k].sub_files)

\* _json_encode with metadata={}: a '_meta_' entry is added at the top level;
\* a non-empty '_meta_' already there raises ValueError
json_dump(obj) ==
    IF "_meta_" \in Keys(obj) THEN Raise("ValueError")
    ELSE [ret |-> "ok", doc |-> obj @@ [_meta_ |-> [_version_clmuformatter_ |-> "0.5"]]]

\* json.load raises JSONDecodeError on text that is no JSON; _json_decode gives
\* back what was stored, and fails on a '_type_' key it does not know
json_load(data) ==
    IF "garbage_" \in Keys(data) THEN Raise("JSONDecodeError")
    ELSE IF HasTypeKey(data) THEN Raise("NameError")
    ELSE [ret |-> "ok", doc |-> data]

----------------------------------------------------------------------------
(* Names and paths of one call of backup() *)

src_filename == Base(args.src_path)
dst_filepath == Append(args.dst_path, src_filename)
bkp_meta_dirpath == Append(args.dst_path, "_bkp_meta_")
time_time == run
\* a clock that stands still
top_timestamp_str_fixed == _get_timestamp_str(0)
top_timestamp_str == _get_timestamp_str(time_time)
log_filename == Append(bkp_meta_dirpath, src_filename \o ".filetree.bkp" \o top_timestamp_str \o ".log")
\* the new filetree written straight under the latest name
new_filetree_filename_latest == Append(bkp_meta_dirpath, src_filename \o ".filetree.json")
new_filetree_filename == Append(bkp_meta_dirpath, src_filename \o ".filetree.bkp" \o top_timestamp_str \o ".json")
latest_filetree_filename == Append(bkp_meta_dirpath, src_filename \o ".filetree.json")

\* _get_bkp_filename, on the last name of the path
_get_bkp_filename(dst_path, mtime_utc, compress) ==
    LET dst_path_new == Base(dst_path) \o ".bkp" \o mtime_utc \o "._bkp_"
    IN Append(Parent(dst_path), IF compress = "gzip" THEN dst_path_new \o ".gz" ELSE dst_path_new)

TarGz(dst_filepath_noext) == Append(Parent(dst_filepath_noext), Base(dst_filepath_noext) \o ".tar.gz")

----------------------------------------------------------------------------
(* _save_bkp_file and shutil.make_archive *)

\* open(path, 'wb') fails when the directory is missing or path is a directory
CannotWrite(F, path) == ~isdir(F, Parent(path)) \/ isdir(F, path)

\* lines 103-138 with dry_run false: shutil.copy2 when compress is '', gzip
\* through open(src_path, 'rb') and gzip.open(dst_path, 'wb') when it is 'gzip'
SaveCopy(F, src_path, dst_path, compress, now) ==
    IF ~lexists(F, src_path) THEN [ret |-> "raise", exc |-> "FileNotFoundError", fs |-> F]
    ELSE IF isdir(F, src_path) THEN [ret |-> "raise", exc |-> "IsADirectoryError", fs |-> F]
    ELSE IF ~F[src_path].readable THEN [ret |-> "raise", exc |-> "PermissionError", fs |-> F]
    ELSE IF CannotWrite(F, dst_path) THEN [ret |-> "raise", exc |-> "FileNotFoundError", fs |-> F]
    ELSE [ret |-> "ok",
          fs |-> WriteFile(F, dst_path,
                    FileNode(F[src_path].size, now,
                             IF compress = "gzip"
                             THEN [gzip |-> F[src_path].data] ELSE F[src_path].data),
                    now)]

\* _save_bkp_file without its tests of dry_run
_save_bkp_file_always(F, src_path, dst_path, dry, compress, now) ==
    IF compress \notin {"", "gzip"} THEN [ret |-> "ok", fs |-> F]
    ELSE SaveCopy(F, src_path, dst_path, compress, now)

\* _save_bkp_file with the commented-out 'move' branch: os.remove(src_path)
_save_bkp_file_move(F, src_path, dst_path, dry, compress, now) ==
    IF compress \notin {"", "gzip"} \/ dry THEN [ret |-> "ok", fs |-> F]
    ELSE LET r == SaveCopy(F, src_path, dst_path, compress, now)
         IN IF r.ret = "raise" THEN r
            ELSE [r EXCEPT !.fs = [q \in DOMAIN r.fs \ {src_path} |-> r.fs[q]]]

\* _save_bkp_file(src_path, dst_path, action='copy'): [ret, fs]
_save_bkp_file(F, src_path, dst_path, dry, compress, now) ==
    IF compress \notin {"", "gzip"} \/ dry THEN [ret |-> "ok", fs |-> F]
    ELSE SaveCopy(F, src_path, dst_path, compress, now)

\* make_archive that leaves an archive of the same name alone
make_archive_keep(F, base_name, root_dir, base_dir, now) ==
    LET src == Append(root_dir, base_dir)
        dst == TarGz(base_name)
        members == Subtree(F, src) \ {dst}
        bad == {q \in members : ~F[q].readable}
        written(ms) == WriteFile(F, dst, FileNode(Cardinality(ms), now, [tar |-> ms]), now)
    IN IF lexists(F, dst) THEN [ret |-> "ok", fs |-> F]
       ELSE IF CannotWrite(F, dst) THEN [ret |-> "raise", exc |-> "FileNotFoundError", fs |-> F]
       ELSE IF members = {} THEN [ret |-> "raise", exc |-> "FileNotFoundError", fs |-> written({})]
       ELSE IF bad # {} THEN [ret |-> "raise", exc |-> "PermissionError", fs |-> written({})]
       ELSE [ret |-> "ok", fs |-> written(members)]

\* shutil.make_archive(base_name, 'gztar', root_dir, base_dir): the archive is
\* opened first, then the tree is added; an unreadable or vanished member
\* raises with the archive left as far as it got
make_archive(F, base_name, root_dir, base_dir, now) ==
    LET src == Append(root_dir, base_dir)
        dst == TarGz(base_name)
        members == Subtree(F, src) \ {dst}
        bad == {q \in members : ~F[q].readable}
        written(ms) == WriteFile(F, dst, FileNode(Cardinality(ms), now, [tar |-> ms]), now)
    IN IF CannotWrite(F, dst) THEN [ret |-> "raise", exc |-> "FileNotFoundError", fs |-> F]
       ELSE IF members = {} THEN [ret |-> "raise", exc |-> "FileNotFoundError", fs |-> written({})]
       ELSE IF bad # {} THEN [ret |-> "raise", exc |-> "PermissionError", fs |-> written({})]
       ELSE [ret |-> "ok", fs |-> written(members)]

----------------------------------------------------------------------------
(* _backup_sub: the decision for one entry *)

NewKeys == {"type", "no_f", "size", "compr_mth", "mtime_px6", "mtime_utc"}
OldKeys == {"type", "size", "mtime_px6"}

\* old_filetree[fname] if fname in old_filetree.keys() and isinstance(.., dict) else {}
old_filedata_of(old_ft, fname) ==
    IF fname \in Keys(old_ft) /\ IsDict(old_ft[fname]) THEN old_ft[fname] ELSE EmptyDict

\* the three values compared by the shallow comparison
SameMeta(new_filedata, old_filedata) ==
    /\ new_filedata.mtime_px6 = old_filedata.mtime_px6
    /\ new_filedata.size = old_filedata.size
    /\ new_filedata.type = old_filedata.type

\* the decision with an old entry that lacks a compared key taken as fatal
Decide_strict(new_filedata, old_ft, fname, filecmp_shallow) ==
    IF ~IsDict(old_ft) THEN "AttributeError"
    ELSE LET old_filedata == old_filedata_of(old_ft, fname)
         IN IF ~(NewKeys \subseteq Keys(new_filedata))
            THEN IF is_verbose(verbose, req_fatal) THEN "ValueError" ELSE "Skip"
            ELSE IF Keys(old_filedata) # {} /\ ~filecmp_shallow /\ is_verbose(verbose, req_fatal)
            THEN "NotImplementedError"
            ELSE IF Keys(old_filedata) # {} /\ ~(OldKeys \subseteq Keys(old_filedata))
            THEN "ValueError"
            ELSE IF Keys(old_filedata) # {} /\ SameMeta(new_filedata, old_filedata)
            THEN "Skip"
            ELSE IF new_filedata.type \in {"file", "link"} THEN "Copy"
            ELSE IF new_filedata.type = "dir"
            THEN IF new_filedata.compr_mth = "gztar" THEN "Archive" ELSE "Descend"
            ELSE "Nothing"

\* the decision with the content comparison refused before the old entry is
\* looked at
Decide_deep(new_filedata, old_ft, fname, filecmp_shallow) ==
    IF ~IsDict(old_ft) THEN "AttributeError"
    ELSE LET old_filedata == old_filedata_of(old_ft, fname)
         IN IF ~(NewKeys \subseteq Keys(new_filedata))
            THEN IF is_verbose(verbose, req_fatal) THEN "ValueError" ELSE "Skip"
            ELSE IF ~filecmp_shallow /\ is_verbose(verbose, req_fatal)
            THEN "NotImplementedError"
            ELSE IF /\ Keys(old_filedata) # {}
                    /\ OldKeys \subseteq Keys(old_filedata)
                    /\ SameMeta(new_filedata, old_filedata)
            THEN "Skip"
            ELSE IF new_filedata.type \in {"file", "link"} THEN "Copy"
            ELSE IF new_filedata.type = "dir"
            THEN IF new_filedata.compr_mth = "gztar" THEN "Archive" ELSE "Descend"
            ELSE "Nothing"

\* what the loop body does with one entry: Skip, Copy, Archive, Descend,
\* Nothing (an entry that is no file, link or directory), or the exception raised
\* before anything is done
Decide(new_filedata, old_ft, fname, filecmp_shallow) ==
    IF ~IsDict(old_ft) THEN "AttributeError"
    ELSE LET old_filedata == old_filedata_of(old_ft, fname)
         IN IF ~(NewKeys \subseteq Keys(new_filedata))
            THEN IF is_verbose(verbose, req_fatal) THEN "ValueError" ELSE "Skip"
            ELSE IF Keys(old_filedata) # {} /\ ~filecmp_shallow /\ is_verbose(verbose, req_fatal)
            THEN "NotImplementedError"
            ELSE IF /\ Keys(old_filedata) # {}
                    /\ OldKeys \subseteq Keys(old_filedata)
                    /\ SameMeta(new_filedata, old_filedata)
            THEN "Skip"
            ELSE IF new_filedata.type \in {"file", "link"} THEN "Copy"
            ELSE IF new_filedata.type = "dir"
            THEN IF new_filedata.compr_mth = "gztar" THEN "Archive" ELSE "Descend"
            ELSE "Nothing"

\* the old_filetree handed to the recursive call: line 396 reads
\* old_filetree[fname] again, without the isinstance test of line 325
old_sub_files(old_ft, fname) ==
    LET old_filedata == IF fname \in Keys(old_ft) THEN old_ft[fname] ELSE EmptyDict
    IN IF ~IsDict(old_filedata) THEN Raise("AttributeError")
       ELSE [ret |-> "ok",
             d |-> IF "sub_files" \in Keys(old_filedata) THEN old_filedata.sub_files ELSE EmptyDict]

\* the count added for a skipped entry taken as one, whatever it holds
no_skip_one(new_filedata) == 1

\* line 356: no_skip += new_filedata['no_f']
no_skip_add(new_filedata) == new_filedata.no_f

Frame(src_path, dst_path, new_ft, old_ft) ==
    [src_path |-> src_path, dst_path |-> dst_path, new_filetree |-> new_ft,
     old_filetree |-> old_ft, todo |-> Keys(new_ft),
     no_skip |-> 0, no_copy |-> 0, no_tgz |-> 0, no_dir |-> 0]

NoCounts == [no_skip |-> 0, no_copy |-> 0, no_tgz |-> 0, no_dir |-> 0]

NoProbe == [new_filedata |-> EmptyDict, old_filetree |-> EmptyDict,
            verdict |-> "", sub_files |-> EmptyDict,
            scan |-> EmptyDict, scan_moved |-> RetNone, loaded |-> RetNone]

Callers == {"A", "B"}

\* backup() not yet called by either caller
NoCall == [pc |-> "idle", time |-> 0, new_filetree |-> EmptyDict, old_filetree |-> EmptyDict,
           counts |-> NoCounts, wrote |-> {}, began |-> 0, scanned |-> 0, updated |-> 0,
           error |-> ""]
NoCalls == [c \in Callers |-> NoCall]

NothingSaid ==
    [skip |-> {}, copy |-> {}, tgz |-> {}, dir |-> {}, mkdir |-> {}, exists |-> {},
     total |-> -1, summary |-> FALSE, error |-> ""]

----------------------------------------------------------------------------
(* _backup_sub as the function it is: the whole pass over one directory and
   all below it, the entries of each directory taken in one fixed order *)

NoVerdicts == [skip |-> {}, copy |-> {}, tgz |-> {}, dir |-> {}]

AddCounts(a, b) ==
    [no_skip |-> a.no_skip + b.no_skip, no_copy |-> a.no_copy + b.no_copy,
     no_tgz |-> a.no_tgz + b.no_tgz, no_dir |-> a.no_dir + b.no_dir]

AddVerdicts(a, b) ==
    [skip |-> a.skip \cup b.skip, copy |-> a.copy \cup b.copy,
     tgz |-> a.tgz \cup b.tgz, dir |-> a.dir \cup b.dir]

Raised(exc, F) ==
    [ret |-> "raise", exc |-> exc, fs |-> F, counts |-> NoCounts, verdicts |-> NoVerdicts]

RECURSIVE _backup_sub(_, _, _, _, _, _, _, _)

\* lines 322-411: the loop body for the entry fname
_backup_entry(F, src_path, dst_path, new_ft, old_ft, filecmp_shallow, dry, now, fname) ==
    LET new_filedata == new_ft[fname]
        src_filepath == Append(src_path, fname)
        dst_filepath_base == Append(dst_path, fname)
        verdict == Decide(new_filedata, old_ft, fname, filecmp_shallow)
    IN CASE verdict = "Skip" ->
              [ret |-> "ok", fs |-> F,
               counts |-> [NoCounts EXCEPT !.no_skip = no_skip_add(new_filedata)],
               verdicts |-> [NoVerdicts EXCEPT !.skip = {src_filepath}]]
         [] verdict = "Nothing" ->
              [ret |-> "ok", fs |-> F, counts |-> NoCounts, verdicts |-> NoVerdicts]
         [] verdict = "Copy" ->
              LET dst == _get_bkp_filename(dst_filepath_base, new_filedata.mtime_utc,
                                           new_filedata.compr_mth)
                  r == _save_bkp_file(F, src_filepath, dst, dry, new_filedata.compr_mth, now)
              IN IF r.ret = "raise" THEN Raised(r.exc, r.fs)
                 ELSE [ret |-> "ok", fs |-> r.fs,
                       counts |-> [NoCounts EXCEPT !.no_copy = new_filedata.no_f],
                       verdicts |-> [NoVerdicts EXCEPT !.copy = {src_filepath}]]
         [] verdict = "Archive" ->
              LET dst_filepath_noext == _get_bkp_filename(dst_filepath_base,
                                                          new_filedata.mtime_utc, "")
                  r == IF dry THEN [ret |-> "ok", fs |-> F]
                       ELSE make_archive(F, dst_filepath_noext, src_path, fname, now)
              IN IF r.ret = "raise" THEN Raised(r.exc, r.fs)
                 ELSE [ret |-> "ok", fs |-> r.fs,
                       counts |-> [NoCounts EXCEPT !.no_tgz = 1],
                       verdicts |-> [NoVerdicts EXCEPT !.tgz = {src_filepath}]]
         [] verdict = "Descend" ->
              LET missing == ~isdir(F, dst_filepath_base)
                  fails == missing /\ ~dry /\ makedirs_raises(F, dst_filepath_base)
                  F1 == IF missing /\ ~dry /\ ~fails
                        THEN makedirs(F, dst_filepath_base, now) ELSE F
                  old == old_sub_files(old_ft, fname)
              IN IF fails THEN Raised("FileExistsError", F1)
                 ELSE IF old.ret = "raise" THEN Raised(old.exc, F1)
                 ELSE CHOOSE r \in
                        {IF sub.ret = "raise" THEN sub
                         ELSE [ret |-> "ok", fs |-> sub.fs,
                               counts |-> [sub.counts EXCEPT !.no_dir = @ + 1],
                               verdicts |-> AddVerdicts(sub.verdicts,
                                               [NoVerdicts EXCEPT !.dir = {src_filepath}])] :
                           sub \in {_backup_sub(F1, src_filepath, dst_filepath_base,
                                                new_filedata.sub_files, old.d,
                                                filecmp_shallow, dry, now)}} : TRUE
         [] OTHER -> Raised(verdict, F)

\* lines 356, 366, 383, 407-410: the counts of one entry added to the sums
Summed(acc, one) ==
    IF one.ret = "raise" THEN one
    ELSE [ret |-> "ok", fs |-> one.fs,
          counts |-> AddCounts(acc.counts, one.counts),
          verdicts |-> AddVerdicts(acc.verdicts, one.verdicts)]

RECURSIVE _backup_loop(_, _, _, _, _, _, _, _, _, _)

\* line 321: for fname in new_filetree.keys(), the counts summed as it goes
_backup_loop(F, src_path, dst_path, new_ft, old_ft, filecmp_shallow, dry, now, todo, acc) ==
    IF todo = {} THEN acc
    ELSE LET fname == CHOOSE n \in todo : TRUE
             \* the result for fname, and the sums with it, each worked out once
             rest == UNION {{IF sum.ret = "raise" THEN sum
                             ELSE _backup_loop(sum.fs, src_path, dst_path, new_ft, old_ft,
                                               filecmp_shallow, dry, now, todo \ {fname}, sum) :
                               sum \in {Summed(sofar, one)}} :
                            one \in {_backup_entry(F, src_path, dst_path, new_ft, old_ft,
                                                   filecmp_shallow, dry, now, fname)},
                            sofar \in {acc}}
         IN CHOOSE r \in rest : TRUE

\* lines 300-412: [ret, fs, counts, verdicts], or the exception raised
_backup_sub(F, src_path, dst_path, new_ft, old_ft, filecmp_shallow, dry, now) ==
    _backup_loop(F, src_path, dst_path, new_ft, old_ft, filecmp_shallow, dry, now,
                 Keys(new_ft),
                 [ret |-> "ok", fs |-> F, counts |-> NoCounts, verdicts |-> NoVerdicts])

----------------------------------------------------------------------------
(* backup(): one call, step by step *)

Top == stack[Len(stack)]
Ended == pc \in {"idle", "done", "aborted"}

Abort(exc) ==
    /\ pc' = "aborted"
    /\ said' = [said EXCEPT !.error = exc]
    /\ stack' = <<>>

\* lines 477-522: the metadata directory and the log file are made whatever dry_run is
Begin(d) ==
    /\ Ended
    /\ run < MaxRuns
    /\ run' = run + 1
    /\ dry_run' = d
    /\ fs0' = fs
    /\ prev' = [dry_run |-> dry_run, pc |-> pc]
    /\ UNCHANGED <<args, edits, new_filetree, old_filetree, counts, probe, calls>>
    /\ LET now == run + 1
           log == Append(bkp_meta_dirpath, src_filename \o ".filetree.bkp"
                           \o _get_timestamp_str(now) \o ".log")
           F1 == IF isdir(fs, bkp_meta_dirpath) THEN fs ELSE makedirs(fs, bkp_meta_dirpath, now)
       IN IF ~isdir(fs, bkp_meta_dirpath) /\ makedirs_raises(fs, bkp_meta_dirpath)
          THEN /\ fs' = fs
               /\ pc' = "aborted"
               /\ said' = [NothingSaid EXCEPT !.error = "FileExistsError"]
               /\ stack' = <<>>
          ELSE /\ fs' = IF lexists(F1, log) THEN F1
                        ELSE WriteFile(F1, log, FileNode(0, now, [log |-> TRUE]), now)
               /\ pc' = "scan"
               /\ said' = NothingSaid
               /\ stack' = <<>>

\* lines 525-530: ans = get_filetree(..); ans[0] of None is a TypeError
Scan ==
    /\ pc = "scan"
    /\ UNCHANGED <<fs, args, dry_run, run, edits, prev, old_filetree, counts, fs0, probe, calls>>
    /\ LET ans == get_filetree(fs, args.src_path, src_filename)
       IN IF ans.ret = "raise" THEN Abort(ans.exc) /\ UNCHANGED new_filetree
          ELSE IF ans.ret = "None" THEN Abort("TypeError") /\ UNCHANGED new_filetree
          ELSE /\ new_filetree' = (ans.name :> ans.ft)
               /\ said' = [said EXCEPT !.total = ans.ft.no_f]
               /\ pc' = "save"
               /\ UNCHANGED stack

\* lines 533-538: the new filetree goes to its own timestamped file
SaveNew ==
    /\ pc = "save"
    /\ UNCHANGED <<args, dry_run, run, edits, prev, new_filetree, old_filetree, counts, fs0, probe, calls>>
    /\ IF dry_run THEN pc' = "read" /\ UNCHANGED <<fs, said, stack>>
       ELSE LET r == json_dump(new_filetree)
            IN IF CannotWrite(fs, new_filetree_filename)
               THEN Abort("FileNotFoundError") /\ UNCHANGED fs
               ELSE IF r.ret = "raise"
               THEN /\ fs' = WriteFile(fs, new_filetree_filename, FileNode(0, time_time, Garbage), time_time)
                    /\ Abort(r.exc)
               ELSE /\ fs' = WriteFile(fs, new_filetree_filename, FileNode(1, time_time, r.doc), time_time)
                    /\ pc' = "read"
                    /\ UNCHANGED <<said, stack>>

\* lines 541-558: the latest filetree, {} when it is missing or no JSON
LoadLatest(F) ==
    IF ~lexists(F, latest_filetree_filename) THEN [ret |-> "ok", doc |-> EmptyDict]
    ELSE IF isdir(F, latest_filetree_filename) THEN Raise("IsADirectoryError")
    ELSE LET r == json_load(F[latest_filetree_filename].data)
         IN IF r.ret = "raise" /\ r.exc = "JSONDecodeError"
            THEN [ret |-> "ok", doc |-> EmptyDict] ELSE r

\* lines 561-571: the children of the root entry, new and old
new_filetree_dict == new_filetree[src_filename].sub_files
\* the old children looked up under a key the filetree does not have
old_filetree_dict_children ==
    IF src_filename \in Keys(old_filetree) /\ "children" \in Keys(old_filetree[src_filename])
    THEN old_filetree[src_filename].children ELSE EmptyDict
old_filetree_dict ==
    IF src_filename \in Keys(old_filetree) /\ "sub_files" \in Keys(old_filetree[src_filename])
    THEN old_filetree[src_filename].sub_files ELSE EmptyDict

ReadOld ==
    /\ pc = "read"
    /\ UNCHANGED <<fs, args, dry_run, run, edits, prev, new_filetree, counts, fs0, probe, calls>>
    /\ LET r == LoadLatest(fs)
       IN IF r.ret = "raise" THEN Abort(r.exc) /\ UNCHANGED old_filetree
          ELSE IF "sub_files" \notin Keys(new_filetree[src_filename])
          THEN Abort("KeyError") /\ old_filetree' = r.doc
          ELSE IF ~IsDict(r.doc) \/ (src_filename \in Keys(r.doc) /\ ~IsDict(r.doc[src_filename]))
          THEN Abort("AttributeError") /\ old_filetree' = r.doc
          ELSE /\ old_filetree' = r.doc
               /\ pc' = "mkdst"
               /\ UNCHANGED <<said, stack>>

\* the call of _backup_sub with the destination directory left unmade
Call_no_mkdir ==
    /\ pc = "mkdst"
    /\ UNCHANGED <<fs, args, dry_run, run, edits, prev, new_filetree, old_filetree, counts, fs0, probe, calls>>
    /\ said' = IF ~isdir(fs, dst_filepath)
               THEN [said EXCEPT !.mkdir = @ \cup {dst_filepath}] ELSE said
    /\ stack' = <<Frame(args.src_path, dst_filepath, new_filetree_dict, old_filetree_dict)>>
    /\ pc' = "sub"

\* the call of _backup_sub with a dry run handed no entry to decide on
Call_dry_empty ==
    /\ pc = "mkdst"
    /\ UNCHANGED <<args, dry_run, run, edits, prev, new_filetree, old_filetree, counts, fs0, probe, calls>>
    /\ LET missing == ~isdir(fs, dst_filepath)
           said1 == IF missing THEN [said EXCEPT !.mkdir = @ \cup {dst_filepath}] ELSE said
       IN IF missing /\ ~dry_run /\ makedirs_raises(fs, dst_filepath)
          THEN /\ Abort("FileExistsError")
               /\ UNCHANGED fs
          ELSE /\ fs' = IF missing /\ ~dry_run THEN makedirs(fs, dst_filepath, time_time) ELSE fs
               /\ said' = said1
               /\ stack' = <<Frame(args.src_path, dst_filepath,
                                   IF dry_run THEN EmptyDict ELSE new_filetree_dict,
                                   old_filetree_dict)>>
               /\ pc' = "sub"

\* lines 574-596: the destination directory, then the call of _backup_sub
Call ==
    /\ pc = "mkdst"
    /\ UNCHANGED <<args, dry_run, run, edits, prev, new_filetree, old_filetree, counts, fs0, probe, calls>>
    /\ LET missing == ~isdir(fs, dst_filepath)
           said1 == IF missing THEN [said EXCEPT !.mkdir = @ \cup {dst_filepath}] ELSE said
       IN IF missing /\ ~dry_run /\ makedirs_raises(fs, dst_filepath)
          THEN /\ Abort("FileExistsError")
               /\ UNCHANGED fs
          ELSE /\ fs' = IF missing /\ ~dry_run THEN makedirs(fs, dst_filepath, time_time) ELSE fs
               /\ said' = said1
               /\ stack' = <<Frame(args.src_path, dst_filepath, new_filetree_dict, old_filetree_dict)>>
               /\ pc' = "sub"

\* lines 321-411: one pass of the loop of the innermost _backup_sub
ProcessEntry(fname) ==
    /\ pc = "sub"
    /\ Len(stack) > 0
    /\ fname \in Top.todo
    /\ UNCHANGED <<args, dry_run, run, edits, prev, new_filetree, old_filetree, counts, fs0, probe, calls>>
    /\ LET fr == Top
           n == Len(stack)
           new_filedata == fr.new_filetree[fname]
           src_filepath == Append(fr.src_path, fname)
           dst_filepath_base == Append(fr.dst_path, fname)
           verdict == Decide(new_filedata, fr.old_filetree, fname, args.filecmp_shallow)
           done == [fr EXCEPT !.todo = @ \ {fname}]
       IN CASE verdict = "Skip" ->
                /\ stack' = [stack EXCEPT ![n] = [done EXCEPT !.no_skip = @ + no_skip_add(new_filedata)]]
                /\ said' = [said EXCEPT !.skip = @ \cup {src_filepath}]
                /\ UNCHANGED <<fs, pc>>
            [] verdict = "Nothing" ->
                /\ stack' = [stack EXCEPT ![n] = done]
                /\ UNCHANGED <<fs, pc, said>>
            [] verdict = "Copy" ->
                LET dst == _get_bkp_filename(dst_filepath_base, new_filedata.mtime_utc,
                                             new_filedata.compr_mth)
                    r == _save_bkp_file(fs, src_filepath, dst, dry_run,
                                        new_filedata.compr_mth, time_time)
                    said1 == [said EXCEPT !.copy = @ \cup {src_filepath},
                                          !.exists = IF lexists(fs, dst) THEN @ \cup {dst} ELSE @]
                IN /\ fs' = r.fs
                   /\ IF r.ret = "raise"
                      THEN /\ pc' = "aborted"
                           /\ said' = [said1 EXCEPT !.error = r.exc]
                           /\ stack' = <<>>
                      ELSE /\ stack' = [stack EXCEPT ![n] =
                                          [done EXCEPT !.no_copy = @ + new_filedata.no_f]]
                           /\ said' = said1
                           /\ UNCHANGED pc
            [] verdict = "Archive" ->
                LET dst_filepath_noext == _get_bkp_filename(dst_filepath_base,
                                                            new_filedata.mtime_utc, "")
                    r == IF dry_run THEN [ret |-> "ok", fs |-> fs]
                         ELSE make_archive(fs, dst_filepath_noext, fr.src_path, fname, time_time)
                    said1 == [said EXCEPT !.tgz = @ \cup {src_filepath},
                                          !.exists = IF lexists(fs, TarGz(dst_filepath_noext))
                                                     THEN @ \cup {TarGz(dst_filepath_noext)} ELSE @]
                IN /\ fs' = r.fs
                   /\ IF r.ret = "raise"
                      THEN /\ pc' = "aborted"
                           /\ said' = [said1 EXCEPT !.error = r.exc]
                           /\ stack' = <<>>
                      ELSE /\ stack' = [stack EXCEPT ![n] = [done EXCEPT !.no_tgz = @ + 1]]
                           /\ said' = said1
                           /\ UNCHANGED pc
            [] verdict = "Descend" ->
                LET missing == ~isdir(fs, dst_filepath_base)
                    fails == missing /\ ~dry_run /\ makedirs_raises(fs, dst_filepath_base)
                    F1 == IF missing /\ ~dry_run /\ ~fails
                          THEN makedirs(fs, dst_filepath_base, time_time) ELSE fs
                    old == old_sub_files(fr.old_filetree, fname)
                    said1 == [said EXCEPT !.dir = @ \cup {src_filepath},
                                          !.mkdir = IF missing THEN @ \cup {dst_filepath_base} ELSE @]
                IN /\ fs' = F1
                   /\ IF fails \/ old.ret = "raise"
                      THEN /\ pc' = "aborted"
                           /\ said' = [said1 EXCEPT !.error =
                                          IF fails THEN "FileExistsError" ELSE old.exc]
                           /\ stack' = <<>>
                      ELSE /\ stack' = Append([stack EXCEPT ![n] = done],
                                              Frame(src_filepath, dst_filepath_base,
                                                    new_filedata.sub_files, old.d))
                           /\ said' = said1
                           /\ UNCHANGED pc
            [] OTHER ->
                /\ Abort(verdict)
                /\ UNCHANGED fs

\* the return with the counts of the directory left replacing, not adding to,
\* the counts of the directory above
Return_overwrite ==
    /\ pc = "sub"
    /\ Len(stack) > 0
    /\ Top.todo = {}
    /\ UNCHANGED <<fs, args, dry_run, run, edits, prev, new_filetree, old_filetree, said, fs0, probe, calls>>
    /\ LET fr == Top
           n == Len(stack)
       IN IF n > 1
          THEN /\ stack' = [SubSeq(stack, 1, n - 1) EXCEPT ![n - 1] =
                              [@ EXCEPT !.no_skip = fr.no_skip,
                                        !.no_copy = fr.no_copy,
                                        !.no_tgz = fr.no_tgz,
                                        !.no_dir = fr.no_dir + 1]]
               /\ UNCHANGED <<pc, counts>>
          ELSE /\ stack' = <<>>
               /\ counts' = [no_skip |-> fr.no_skip, no_copy |-> fr.no_copy,
                             no_tgz |-> fr.no_tgz, no_dir |-> fr.no_dir]
               /\ pc' = "summary"

\* line 412 and lines 399-411: the innermost _backup_sub returns its counts
Return ==
    /\ pc = "sub"
    /\ Len(stack) > 0
    /\ Top.todo = {}
    /\ UNCHANGED <<fs, args, dry_run, run, edits, prev, new_filetree, old_filetree, said, fs0, probe, calls>>
    /\ LET fr == Top
           n == Len(stack)
       IN IF n > 1
          THEN /\ stack' = [SubSeq(stack, 1, n - 1) EXCEPT ![n - 1] =
                              [@ EXCEPT !.no_skip = @ + fr.no_skip,
                                        !.no_copy = @ + fr.no_copy,
                                        !.no_tgz = @ + fr.no_tgz,
                                        !.no_dir = @ + fr.no_dir + 1]]
               /\ UNCHANGED <<pc, counts>>
          ELSE /\ stack' = <<>>
               /\ counts' = [no_skip |-> fr.no_skip, no_copy |-> fr.no_copy,
                             no_tgz |-> fr.no_tgz, no_dir |-> fr.no_dir]
               /\ pc' = "summary"

\* the summary without line 597, the root not counted
Summary_uncounted ==
    /\ pc = "summary"
    /\ counts' = counts
    /\ said' = [said EXCEPT !.summary = is_verbose(verbose, req_note)]
    /\ pc' = "update"
    /\ UNCHANGED <<fs, args, dry_run, run, edits, prev, new_filetree, old_filetree, stack, fs0, probe, calls>>

\* lines 597-606: the summary, said at 'note' level
Summary ==
    /\ pc = "summary"
    /\ counts' = [counts EXCEPT !.no_dir = @ + 1]
    /\ said' = [said EXCEPT !.summary = is_verbose(verbose, req_note)]
    /\ pc' = "update"
    /\ UNCHANGED <<fs, args, dry_run, run, edits, prev, new_filetree, old_filetree, stack, fs0, probe, calls>>

\* lines 609-622: the new filetree file is copied over the latest one
Update ==
    /\ pc = "update"
    /\ UNCHANGED <<args, dry_run, run, edits, prev, new_filetree, old_filetree, counts, fs0, probe, calls>>
    /\ IF dry_run THEN pc' = "done" /\ UNCHANGED <<fs, said, stack>>
       ELSE IF ~isfile(fs, new_filetree_filename) \/ CannotWrite(fs, latest_filetree_filename)
       THEN Abort("FileNotFoundError") /\ UNCHANGED fs
       ELSE /\ fs' = WriteFile(fs, latest_filetree_filename, fs[new_filetree_filename], time_time)
            /\ pc' = "done"
            /\ UNCHANGED <<said, stack>>

----------------------------------------------------------------------------
(* The source changes from outside *)

SourceTop == <<"s">>

InitFS ==
    (<<>> :> DirNode(0))
    @@ (<<"bak">> :> DirNode(0))
    @@ (<<"s">> :> DirNode(0))
    @@ (<<"s", "a">> :> FileNode(1, 1, [bytes |-> "a"]))
    @@ (<<"s", "d">> :> DirNode(0))
    @@ (<<"s", "d", "b">> :> FileNode(1, 0, [bytes |-> "b"]))
    @@ (<<"s", "d", "c">> :> FileNode(1, 3, [bytes |-> "c"]))
    @@ (<<"s", ".git">> :> DirNode(0))
    @@ (<<"s", ".git", "h">> :> FileNode(1, 1, [bytes |-> "h"]))
    @@ (<<"s", "__pycache__">> :> DirNode(0))
    @@ (<<"s", "__pycache__", "p">> :> FileNode(1, 1, [bytes |-> "p"]))

\* the entries the user keeps in the source
EditPaths == {p \in DOMAIN fs : Under(SourceTop, p) /\ p \in DOMAIN InitFS}

CanEdit == Len(edits) < MaxEdits
Edit(op, p) == [op |-> op, path |-> p, at |-> run, during |-> pc]

\* a file is rewritten: a new mtime, a new size, or both
Touch(p, mtime, size) ==
    /\ CanEdit /\ Ended
    /\ p \in EditPaths
    /\ fs[p].type = "file"
    /\ <<mtime, size>> # <<fs[p].mtime, fs[p].size>>
    /\ fs' = [fs EXCEPT ![p].mtime = mtime, ![p].size = size]
    /\ edits' = Append(edits, Edit("touch", p))
    /\ UNCHANGED <<args, pc, dry_run, run, prev, new_filetree, old_filetree, stack, counts, said, fs0, probe, calls>>

\* read access is taken away from a file or a directory
Chmod(p) ==
    /\ CanEdit /\ (Ended \/ pc = "mkdst")
    /\ p \in EditPaths
    /\ fs[p].readable
    /\ fs' = [fs EXCEPT ![p].readable = FALSE]
    /\ edits' = Append(edits, Edit("chmod", p))
    /\ UNCHANGED <<args, pc, dry_run, run, prev, new_filetree, old_filetree, stack, counts, said, fs0, probe, calls>>

\* a file is deleted
Remove(p) ==
    /\ CanEdit /\ (Ended \/ pc = "mkdst")
    /\ p \in EditPaths
    /\ fs[p].type = "file"
    /\ fs' = TouchParent([q \in DOMAIN fs \ {p} |-> fs[q]], p, time_time)
    /\ edits' = Append(edits, Edit("remove", p))
    /\ UNCHANGED <<args, pc, dry_run, run, prev, new_filetree, old_filetree, stack, counts, said, fs0, probe, calls>>

----------------------------------------------------------------------------
(* The specification of the backup runs *)

\* the destination apart from the source; the source is a directory, or a
\* directory whose own name is in gztar_list
ArgSets ==
    {[src_path |-> s, dst_path |-> <<"bak">>, filecmp_shallow |-> TRUE] :
        s \in {<<"s">>, <<"s", ".git">>}}

\* the destination apart from the source, holding the source (so that
\* dst_path/src_filename is the source itself), or inside the source
ArgSetsPlaced ==
    {[src_path |-> <<"s">>, dst_path |-> d, filecmp_shallow |-> TRUE] :
        d \in {<<"bak">>, <<>>, <<"s", "d">>}}

\* a smaller source for the runs whose destination lies in or around the source
InitFSPlaced ==
    [p \in {<<>>, <<"bak">>, <<"s">>, <<"s", "a">>, <<"s", "d">>, <<"s", ".git">>,
            <<"s", ".git", "h">>} |-> InitFS[p]]

InitWith(F, argsets) ==
    /\ fs = F
    /\ args \in argsets
    /\ pc = "idle"
    /\ dry_run = FALSE
    /\ run = 0
    /\ edits = <<>>
    /\ prev = [dry_run |-> FALSE, pc |-> "idle"]
    /\ new_filetree = EmptyDict
    /\ old_filetree = EmptyDict
    /\ stack = <<>>
    /\ counts = NoCounts
    /\ said = NothingSaid
    /\ fs0 = F
    /\ probe = NoProbe
    /\ calls = NoCalls

Next ==
    \/ \E d \in BOOLEAN : Begin(d)
    \/ Scan
    \/ SaveNew
    \/ ReadOld
    \/ Call
    \/ \E fname \in (IF Len(stack) > 0 THEN Top.todo ELSE {}) : ProcessEntry(fname)
    \/ Return
    \/ Summary
    \/ Update
    \/ \E p \in DOMAIN fs, mtime \in 0..MaxMTime, size \in 0..MaxSize : Touch(p, mtime, size)
    \/ \E p \in DOMAIN fs : Chmod(p)
    \/ \E p \in DOMAIN fs : Remove(p)

Init == InitWith(InitFS, ArgSets)
Spec == Init /\ [][Next]_vars

InitPlaced == InitWith(InitFSPlaced, ArgSetsPlaced)
SpecPlaced == InitPlaced /\ [][Next]_vars

----------------------------------------------------------------------------
(* Runs against a latest filetree file that is lost, unreadable as JSON, or
   holds a document of another shape than json_dump wrote *)

Without(d, key) == [k \in Keys(d) \ {key} |-> d[k]]

DamageKinds == {"missing", "garbage", "shape", "noroot", "root", "nosub", "subshape"}

\* the document left in the latest filetree file
Damaged(doc, kind, n, key) ==
    LET root == doc[src_filename]
    IN CASE kind = "garbage" -> Garbage
         [] kind = "shape" -> NonDict
         [] kind = "noroot" -> Without(doc, src_filename)
         [] kind = "root" -> [doc EXCEPT ![src_filename] = NonDict]
         [] kind = "nosub" -> [doc EXCEPT ![src_filename] = Without(root, "sub_files")]
         [] kind = "subshape" -> [doc EXCEPT ![src_filename].sub_files = NonDict]
         [] kind = "child" -> [doc EXCEPT ![src_filename].sub_files[n] = NonDict]
         [] kind = "strip" -> [doc EXCEPT ![src_filename].sub_files[n] = Without(@, key)]

\* between two runs, after a real run that ended well, the latest filetree
\* file is lost or rewritten
Damage(kind, n, key) ==
    /\ CanEdit
    /\ pc = "done" /\ ~dry_run /\ run < MaxRuns
    /\ \A i \in 1..Len(edits) : edits[i].at < run
    /\ isfile(fs, latest_filetree_filename)
    /\ kind \in {"child", "strip"} => n \in Keys(fs[latest_filetree_filename].data[src_filename].sub_files)
    /\ fs' = IF kind = "missing"
             THEN [q \in DOMAIN fs \ {latest_filetree_filename} |-> fs[q]]
             ELSE [fs EXCEPT ![latest_filetree_filename].data = Damaged(@, kind, n, key)]
    /\ edits' = Append(edits, Edit("damage", latest_filetree_filename)
                                @@ [kind |-> kind, name |-> n, key |-> key])
    /\ UNCHANGED <<args, pc, dry_run, run, prev, new_filetree, old_filetree, stack, counts,
                   said, fs0, probe, calls>>

NextHistory ==
    \/ \E d \in BOOLEAN : Begin(d)
    \/ Scan
    \/ SaveNew
    \/ ReadOld
    \/ Call
    \/ \E fname \in (IF Len(stack) > 0 THEN Top.todo ELSE {}) : ProcessEntry(fname)
    \/ Return
    \/ Summary
    \/ Update
    \/ \E kind \in DamageKinds : Damage(kind, "", "")
    \/ \E n \in {"a", "d", ".git"} : Damage("child", n, "")
    \/ \E n \in {"a", "d", ".git"}, key \in OldKeys : Damage("strip", n, key)

InitHistory ==
    InitWith(InitFS, {[src_path |-> SourceTop, dst_path |-> <<"bak">>, filecmp_shallow |-> TRUE]})

SpecHistory == InitHistory /\ [][NextHistory]_vars

----------------------------------------------------------------------------
(* Runs on a source that is a directory or one regular file, with the shallow
   comparison and with the content comparison asked for *)

ArgSetsRoots ==
    {[src_path |-> s, dst_path |-> <<"bak">>, filecmp_shallow |-> c] :
        s \in {SourceTop, <<"s", "a">>}, c \in BOOLEAN}

InitRoots == InitWith(InitFS, ArgSetsRoots)

SpecRoots == InitRoots /\ [][NextHistory]_vars

----------------------------------------------------------------------------
(* Two calls of backup() on the same source and destination running at once.
   backup() takes no lock: each call is cut where it reads or writes the
   filesystem, and the steps of the two calls interleave freely *)

\* how many of the calls have begun, scanned or updated so far
Already(field) == Cardinality({o \in Callers : calls[o][field] > 0})

\* every historical filetree written under one name, whenever the call began
new_filetree_filename_same(now) ==
    Append(bkp_meta_dirpath, src_filename \o ".filetree.bkp" \o _get_timestamp_str(0) \o ".json")
\* line 534: the file of the new filetree of the call begun at time now
new_filetree_filename_at(now) ==
    Append(bkp_meta_dirpath, src_filename \o ".filetree.bkp" \o _get_timestamp_str(now) \o ".json")

\* lines 561-571: the children of the root entry of a filetree document
sub_files_of(doc) ==
    IF src_filename \in Keys(doc) /\ "sub_files" \in Keys(doc[src_filename])
    THEN doc[src_filename].sub_files ELSE EmptyDict

RaceAbort(c, exc) == calls' = [calls EXCEPT ![c].pc = "aborted", ![c].error = exc]

RaceFrame == UNCHANGED <<args, pc, dry_run, run, prev, new_filetree, old_filetree, stack,
                         counts, said, fs0, probe>>

\* lines 477-522: the call begins; the two calls begin at different times
RaceBegin(c) ==
    /\ pc = "race" /\ calls[c].pc = "idle"
    /\ RaceFrame /\ UNCHANGED edits
    /\ LET now == 1 + Already("began")
           log == Append(bkp_meta_dirpath, src_filename \o ".filetree.bkp"
                           \o _get_timestamp_str(now) \o ".log")
           F1 == IF isdir(fs, bkp_meta_dirpath) THEN fs ELSE makedirs(fs, bkp_meta_dirpath, now)
       IN IF ~isdir(fs, bkp_meta_dirpath) /\ makedirs_raises(fs, bkp_meta_dirpath)
          THEN /\ fs' = fs
               /\ calls' = [calls EXCEPT ![c].pc = "aborted", ![c].error = "FileExistsError",
                                         ![c].time = now, ![c].began = now]
          ELSE /\ fs' = IF lexists(F1, log) THEN F1
                        ELSE WriteFile(F1, log, FileNode(0, now, [log |-> TRUE]), now)
               /\ calls' = [calls EXCEPT ![c].pc = "scan", ![c].time = now, ![c].began = now]

\* lines 525-530
RaceScan(c) ==
    /\ pc = "race" /\ calls[c].pc = "scan"
    /\ RaceFrame /\ UNCHANGED <<fs, edits>>
    /\ LET ans == get_filetree(fs, args.src_path, src_filename)
       IN IF ans.ret = "raise" THEN RaceAbort(c, ans.exc)
          ELSE IF ans.ret = "None" THEN RaceAbort(c, "TypeError")
          ELSE calls' = [calls EXCEPT ![c].pc = "save",
                                      ![c].new_filetree = (ans.name :> ans.ft),
                                      ![c].scanned = 1 + Already("scanned")]

\* lines 533-538, dry_run being false
RaceSave(c) ==
    /\ pc = "race" /\ calls[c].pc = "save"
    /\ RaceFrame /\ UNCHANGED edits
    /\ LET r == json_dump(calls[c].new_filetree)
           now == calls[c].time
           file == new_filetree_filename_at(now)
       IN IF CannotWrite(fs, file)
          THEN RaceAbort(c, "FileNotFoundError") /\ UNCHANGED fs
          ELSE IF r.ret = "raise"
          THEN /\ fs' = WriteFile(fs, file, FileNode(0, now, Garbage), now)
               /\ RaceAbort(c, r.exc)
          ELSE /\ fs' = WriteFile(fs, file, FileNode(1, now, r.doc), now)
               /\ calls' = [calls EXCEPT ![c].pc = "read"]

\* lines 541-571
RaceRead(c) ==
    /\ pc = "race" /\ calls[c].pc = "read"
    /\ RaceFrame /\ UNCHANGED <<fs, edits>>
    /\ LET r == LoadLatest(fs)
       IN IF r.ret = "raise" THEN RaceAbort(c, r.exc)
          ELSE IF "sub_files" \notin Keys(calls[c].new_filetree[src_filename])
          THEN RaceAbort(c, "KeyError")
          ELSE IF ~IsDict(r.doc) \/ (src_filename \in Keys(r.doc) /\ ~IsDict(r.doc[src_filename]))
          THEN RaceAbort(c, "AttributeError")
          ELSE calls' = [calls EXCEPT ![c].pc = "pass", ![c].old_filetree = r.doc]

\* lines 574-597: the destination directory and the whole of _backup_sub
RacePass(c) ==
    /\ pc = "race" /\ calls[c].pc = "pass"
    /\ RaceFrame /\ UNCHANGED edits
    /\ LET now == calls[c].time
           missing == ~isdir(fs, dst_filepath)
           F1 == IF missing /\ ~makedirs_raises(fs, dst_filepath)
                 THEN makedirs(fs, dst_filepath, now) ELSE fs
       IN IF missing /\ makedirs_raises(fs, dst_filepath)
          THEN RaceAbort(c, "FileExistsError") /\ UNCHANGED fs
          ELSE \E r \in {_backup_sub(F1, args.src_path, dst_filepath,
                                      sub_files_of(calls[c].new_filetree),
                                      sub_files_of(calls[c].old_filetree),
                                      args.filecmp_shallow, FALSE, now)} :
               LET archives == {t \in DOMAIN r.fs : "tar" \in Keys(r.fs[t].data)
                                                    /\ (t \in DOMAIN fs => r.fs[t] # fs[t])}
               IN /\ fs' = r.fs
                  /\ IF r.ret = "raise"
                     THEN calls' = [calls EXCEPT ![c].pc = "aborted", ![c].error = r.exc,
                                                 ![c].wrote = archives]
                     ELSE calls' = [calls EXCEPT ![c].pc = "update", ![c].wrote = archives,
                                                 ![c].counts = [r.counts EXCEPT !.no_dir = @ + 1]]

\* lines 609-612: the file of the new filetree is copied over the latest one
RaceUpdate(c) ==
    /\ pc = "race" /\ calls[c].pc = "update"
    /\ RaceFrame /\ UNCHANGED edits
    /\ LET now == calls[c].time
           file == new_filetree_filename_at(now)
       IN IF ~isfile(fs, file) \/ CannotWrite(fs, latest_filetree_filename)
          THEN RaceAbort(c, "FileNotFoundError") /\ UNCHANGED fs
          ELSE /\ fs' = WriteFile(fs, latest_filetree_filename, fs[file], now)
               /\ calls' = [calls EXCEPT ![c].pc = "done",
                                         ![c].updated = 1 + Already("updated")]

\* a file of the source is rewritten while the calls run
RaceTouch(p, mtime) ==
    /\ pc = "race" /\ CanEdit
    /\ p \in EditPaths
    /\ fs[p].type = "file"
    /\ mtime # fs[p].mtime
    /\ fs' = [fs EXCEPT ![p].mtime = mtime]
    /\ edits' = Append(edits, Edit("touch", p))
    /\ RaceFrame /\ UNCHANGED calls

NextRace ==
    \/ \E c \in Callers : RaceBegin(c)
    \/ \E c \in Callers : RaceScan(c)
    \/ \E c \in Callers : RaceSave(c)
    \/ \E c \in Callers : RaceRead(c)
    \/ \E c \in Callers : RacePass(c)
    \/ \E c \in Callers : RaceUpdate(c)
    \/ \E p \in DOMAIN fs, mtime \in 0..MaxMTime : RaceTouch(p, mtime)

InitRace ==
    /\ fs = InitFS
    /\ args = [src_path |-> SourceTop, dst_path |-> <<"bak">>, filecmp_shallow |-> TRUE]
    /\ pc = "race"
    /\ dry_run = FALSE
    /\ run = 0
    /\ edits = <<>>
    /\ prev = [dry_run |-> FALSE, pc |-> "idle"]
    /\ new_filetree = EmptyDict
    /\ old_filetree = EmptyDict
    /\ stack = <<>>
    /\ counts = NoCounts
    /\ said = NothingSaid
    /\ fs0 = InitFS
    /\ probe = NoProbe
    /\ calls = NoCalls

SpecRace == InitRace /\ [][NextRace]_vars

----------------------------------------------------------------------------
(* The decision of _backup_sub on its own: one new entry "x" against every
   shape of old filetree *)

Px6s == 0..(MaxMTime \div TicksPerMicro)

NewEntries ==
    {LeafTree(t, size, "gzip", m) : t \in {"file", "link"}, size \in 0..MaxSize, m \in Px6s}
    \cup {LeafTree("dir", size, c, m) @@ [sub_files |-> EmptyDict] :
            c \in {"", "gztar"}, size \in 0..MaxSize, m \in Px6s}

\* what an old filetree can hold under a name: entries as get_filetree wrote
\* them, with and without sub_files
OldEntries ==
    {LeafTree(t, size, "gzip", m) : t \in {"file", "link"}, size \in 0..MaxSize, m \in Px6s}
    \cup {LeafTree("dir", size, "", m) : size \in 0..MaxSize, m \in Px6s}
    \cup {LeafTree("dir", size, "", m) @@ [sub_files |-> [y |-> LeafTree("file", 0, "gzip", 0)]] :
            size \in 0..MaxSize, m \in Px6s}

\* the old filetree of the frame: no entry "x", one that is no mapping, an empty
\* mapping, an entry with one of the compared keys missing, or a whole entry
OldTrees ==
    {EmptyDict, [x |-> NonDict], [x |-> EmptyDict]}
    \cup {[x |-> e] : e \in OldEntries}
    \cup {[x |-> Without(e, key)] : e \in OldEntries, key \in OldKeys}

\* lines 321-402 for the entry "x": the decision, and for a directory to enter
\* the old children handed down
Probe ==
    /\ pc = "probe"
    /\ probe.verdict = ""
    /\ LET verdict == Decide(probe.new_filedata, probe.old_filetree, "x", args.filecmp_shallow)
           old == old_sub_files(probe.old_filetree, "x")
       IN probe' = IF verdict # "Descend" THEN [probe EXCEPT !.verdict = verdict]
                   ELSE IF old.ret = "raise" THEN [probe EXCEPT !.verdict = old.exc]
                   ELSE [probe EXCEPT !.verdict = verdict, !.sub_files = old.d]
    /\ UNCHANGED <<fs, args, pc, dry_run, run, edits, prev, new_filetree, old_filetree,
                   stack, counts, said, fs0, calls>>

InitDecide ==
    /\ fs = InitFS
    /\ args = [src_path |-> <<"s">>, dst_path |-> <<"bak">>, filecmp_shallow |-> TRUE]
    /\ pc = "probe"
    /\ dry_run = FALSE
    /\ run = 0
    /\ edits = <<>>
    /\ prev = [dry_run |-> FALSE, pc |-> "idle"]
    /\ new_filetree = EmptyDict
    /\ old_filetree = EmptyDict
    /\ stack = <<>>
    /\ counts = NoCounts
    /\ said = NothingSaid
    /\ fs0 = InitFS
    /\ probe \in {[NoProbe EXCEPT !.new_filedata = n, !.old_filetree = o] :
                     n \in NewEntries, o \in OldTrees}
    /\ calls = NoCalls

NextDecide == Probe

SpecDecide == InitDecide /\ [][NextDecide]_vars

----------------------------------------------------------------------------
(* get_filetree on its own: the scan of every path of a source that holds
   links, unreadable files and ignored names, and the filetree of the source
   written by json_dump and read back by json_load *)

\* what a link of the source may point to: a file, a directory, nothing, itself,
\* a file and a directory outside the source
LinkTargets == {<<"s", "a">>, <<"s", "d">>, <<"s", "gone">>, <<"s", "l">>, <<"x", "f">>, <<"x">>}
\* what a link inside the archived directory may point to
LinkTargetsGit == {<<"x">>, <<"x", "f">>, <<"s", "gone">>, <<"s", ".git">>}
\* the name of the file kept in the directory d
NamesInD == {"b", "_type_", ".ipynb_checkpoints", ".git"}

ScanBase ==
    (<<>> :> DirNode(0))
    @@ (<<"s">> :> DirNode(0))
    @@ (<<"s", "d">> :> DirNode(0))
    @@ (<<"s", ".git">> :> DirNode(0))
    @@ (<<"s", ".git", "h">> :> FileNode(1, 1, [bytes |-> "h"]))
    @@ (<<"s", ".ipynb_checkpoints">> :> DirNode(0))
    @@ (<<"s", ".ipynb_checkpoints", "n">> :> FileNode(1, 1, [bytes |-> "n"]))
    @@ (<<"x">> :> DirNode(0))
    @@ (<<"x", "f">> :> FileNode(MaxSize, MaxMTime, [bytes |-> "f"]))

ScanTrees ==
    {ScanBase
        @@ (<<"s", "a">> :> [FileNode(size, mtime, [bytes |-> "a"]) EXCEPT !.readable = r])
        @@ (<<"s", "d", n>> :> FileNode(1, 0, [bytes |-> "b"]))
        @@ l @@ k :
        size \in 0..MaxSize, mtime \in {0, MaxMTime}, r \in BOOLEAN, n \in NamesInD,
        l \in {EmptyDict} \cup {(<<"s", "l">> :> LinkNode(t, 0)) : t \in LinkTargets},
        k \in {EmptyDict} \cup {(<<"s", ".git", "k">> :> LinkNode(t, 0)) : t \in LinkTargetsGit}}

\* the paths scanned: every entry of the source, and one that is not there
ScanPaths(F) == {q \in DOMAIN F : IsPrefix(SourceTop, q)} \cup {<<"s", "gone">>}

\* the same filesystem with the file outside the source rewritten
Elsewhere(F) ==
    [F EXCEPT ![<<"x", "f">>].size = @ + 1, ![<<"x", "f">>].mtime = @ + TicksPerMicro]

\* get_filetree(path) for every path, and for the source with the outside changed
ScanProbe ==
    /\ pc = "scan_probe"
    /\ probe.verdict = ""
    /\ probe' = [probe EXCEPT
                    !.verdict = "scanned",
                    !.scan = [q \in ScanPaths(fs) |-> get_filetree(fs, q, Base(q))],
                    !.scan_moved = get_filetree(Elsewhere(fs), SourceTop, Base(SourceTop))]
    /\ UNCHANGED <<fs, args, pc, dry_run, run, edits, prev, new_filetree, old_filetree,
                   stack, counts, said, fs0, calls>>

\* backup() lines 533-550: json_dump of {src_filename: filetree}, then json_load
RoundTrip ==
    /\ pc = "scan_probe"
    /\ probe.verdict = "scanned"
    /\ probe.scan[SourceTop].ret = "ok"
    /\ LET ans == probe.scan[SourceTop]
           dumped == json_dump(ans.name :> ans.ft)
       IN probe' = [probe EXCEPT
                      !.verdict = "loaded",
                      !.loaded = IF dumped.ret = "raise" THEN dumped ELSE json_load(dumped.doc)]
    /\ UNCHANGED <<fs, args, pc, dry_run, run, edits, prev, new_filetree, old_filetree,
                   stack, counts, said, fs0, calls>>

InitScan ==
    /\ fs \in ScanTrees
    /\ args = [src_path |-> SourceTop, dst_path |-> <<"bak">>, filecmp_shallow |-> TRUE]
    /\ pc = "scan_probe"
    /\ dry_run = FALSE
    /\ run = 0
    /\ edits = <<>>
    /\ prev = [dry_run |-> FALSE, pc |-> "idle"]
    /\ new_filetree = EmptyDict
    /\ old_filetree = EmptyDict
    /\ stack = <<>>
    /\ counts = NoCounts
    /\ said = NothingSaid
    /\ fs0 = fs
    /\ probe = NoProbe
    /\ calls = NoCalls

NextScan == ScanProbe \/ RoundTrip

SpecScan == InitScan /\ [][NextScan]_vars

----------------------------------------------------------------------------
(* What the claims speak of *)

\* the path below the source root, and the place in the destination that mirrors p
Rel(p) == SubSeq(p, Len(args.src_path) + 1, Len(p))
DstOf(p) == dst_filepath \o Rel(p)

RECURSIVE Walk(_, _)
Walk(tree, rel) ==
    IF rel = <<>> THEN tree
    ELSE IF "sub_files" \in Keys(tree) /\ Head(rel) \in Keys(tree.sub_files)
    THEN Walk(tree.sub_files[Head(rel)], Tail(rel))
    ELSE EmptyDict

\* the entry of source path p in a filetree document, {} when it has none
EntryAt(doc, p) ==
    IF src_filename \in Keys(doc) THEN Walk(doc[src_filename], Rel(p)) ELSE EmptyDict

\* no change from outside since the current call began
Undisturbed == \A i \in 1..Len(edits) : edits[i].at < run
\* the call before the current one was a real run that ended well
AfterFullRun == prev = [dry_run |-> FALSE, pc |-> "done"]

Ignored(p) == \E i \in 1..Len(Rel(p)) : Rel(p)[i] \in ignore_list

\* the regular files of the source outside ignored directories
SourceFiles(F) == {p \in Subtree(F, args.src_path) : isfile(F, p) /\ ~Ignored(p)}
\* the directories of the source, the root included, that are to be archived
ArchiveDirs(F) ==
    {q \in Subtree(F, args.src_path) : isdir(F, q) /\ ~Ignored(q) /\ Base(q) \in gztar_list}

Stamps == {ToString(i) : i \in 0..(MaxMTime + MaxRuns)}

HasCopy(F, p) ==
    LET dst == _get_bkp_filename(DstOf(p),
                   _get_timestamp_str_from_px6(_get_timestamp_px6(F[p].mtime)), "gzip")
    IN lexists(F, dst) /\ F[dst].data = [gzip |-> F[p].data]

ArchivesOf(F, q) ==
    {t \in DOMAIN F : /\ Len(t) > 0
                      /\ Parent(t) = Parent(DstOf(q))
                      /\ \E st \in Stamps : Base(t) = Base(q) \o ".bkp" \o st \o "._bkp_.tar.gz"}

InArchive(F, p) ==
    \E q \in ArchiveDirs(F) :
        /\ Under(q, p)
        /\ \E t \in ArchivesOf(F, q) : "tar" \in Keys(F[t].data) /\ p \in F[t].data.tar

Latest(F) ==
    IF lexists(F, latest_filetree_filename) THEN F[latest_filetree_filename] ELSE EmptyDict

SourceOf(F) == [p \in Subtree(F, args.src_path) |-> F[p]]

Apart(p, q) == ~IsPrefix(p, q) /\ ~IsPrefix(q, p)

----------------------------------------------------------------------------
(* The claims *)

\* C1: after a completed real run, when exactly one regular file of the scanned
\* tree gets a size or an mtime other than the recorded one and nothing else
\* changes, the next run copies exactly that file and skips each of its siblings.
C1_ChangeDetection ==
    (/\ run = 2 /\ pc = "done" /\ AfterFullRun
     /\ Len(edits) = 1 /\ edits[1].op = "touch" /\ edits[1].at = 1
     /\ Keys(EntryAt(new_filetree, edits[1].path)) # {}
     /\ Keys(EntryAt(old_filetree, edits[1].path)) # {}
     /\ \/ EntryAt(new_filetree, edits[1].path).size # EntryAt(old_filetree, edits[1].path).size
        \/ EntryAt(new_filetree, edits[1].path).mtime_px6
             # EntryAt(old_filetree, edits[1].path).mtime_px6)
    => LET p == edits[1].path
           siblings == Keys(EntryAt(new_filetree, Parent(p)).sub_files) \ {Base(p)}
       IN /\ said.copy = {p}
          /\ \A n \in siblings : Append(Parent(p), n) \in said.skip

\* C2: a run that follows a completed real run, with no change of the source
\* since that run began, does not fail, copies nothing and archives nothing,
\* and once done has skipped every child of the root with both counts at 0.
C2_SecondRunSkipsAll ==
    (run = 2 /\ AfterFullRun /\ \A i \in 1..Len(edits) : edits[i].at = 0)
    => /\ pc # "aborted"
       /\ said.copy = {} /\ said.tgz = {} /\ said.dir = {}
       /\ pc = "done" =>
            /\ counts.no_copy = 0 /\ counts.no_tgz = 0
            /\ \A n \in Keys(new_filetree_dict) : Append(args.src_path, n) \in said.skip

C2_Witness ==
    /\ run = 2 /\ pc = "done" /\ ~dry_run /\ AfterFullRun /\ edits = <<>>
    /\ Cardinality(said.skip) >= 3

\* C3: after a completed real run onto an empty destination, every regular file
\* of the source outside ignored directories has a compressed copy in the
\* destination or lies in a .tar.gz made of an archived directory above it.
C3_Complete ==
    (run = 1 /\ pc = "done" /\ ~dry_run /\ edits = <<>>)
    => \A p \in SourceFiles(fs) : HasCopy(fs, p) \/ InArchive(fs, p)

\* C4: the latest filetree file changes only in the step after the summary of a
\* real run (the pass over the whole tree is over); while a run is a dry run, or
\* has aborted, the latest filetree file is as it was when the run began.
C4_PromotionLast ==
    /\ [][Latest(fs') # Latest(fs) => (pc = "update" /\ ~dry_run /\ pc' = "done")]_vars
    /\ [](run >= 1 /\ (dry_run \/ pc = "aborted") => Latest(fs) = Latest(fs0))

C4_Witness ==
    /\ run = 2 /\ pc = "aborted" /\ ~dry_run
    /\ lexists(fs, latest_filetree_filename)

\* C5 as claimed: a dry run leaves the whole filesystem as it was.
C5_DryRunNoMutation ==
    (run >= 1 /\ dry_run /\ Undisturbed) => fs = fs0

\* C5, amended: a dry run makes the metadata directory (when missing) and its
\* log file in it, and nothing else: no other entry appears, goes or changes,
\* but for the mtime of the directory that received the metadata directory.
C5_DryRunOnlyLogs ==
    (run >= 1 /\ dry_run /\ Undisturbed)
    => /\ isdir(fs, bkp_meta_dirpath)
       /\ \A p \in (DOMAIN fs \cup DOMAIN fs0) \ {bkp_meta_dirpath, log_filename} :
            /\ p \in DOMAIN fs /\ p \in DOMAIN fs0
            /\ \/ fs[p] = fs0[p]
               \/ p = args.dst_path /\ [fs[p] EXCEPT !.mtime = fs0[p].mtime] = fs0[p]

C5_Witness ==
    /\ run = 1 /\ dry_run /\ pc = "done" /\ edits = <<>>
    /\ said.copy # {} /\ said.tgz # {} /\ said.mkdir # {}
    /\ ~lexists(fs0, bkp_meta_dirpath)

\* C6 as claimed: with the destination root not inside the source tree, the
\* source tree stays as it was when the run began.
C6_SourceReadOnly ==
    (run >= 1 /\ Undisturbed /\ ~IsPrefix(args.src_path, args.dst_path))
    => SourceOf(fs) = SourceOf(fs0)

\* C6, amended: with neither dst_root/root_name nor the metadata directory
\* inside the source tree or around it, the source tree stays as it was when
\* the run began.
C6_SourceReadOnlyApart ==
    (run >= 1 /\ Undisturbed
     /\ Apart(args.src_path, dst_filepath) /\ Apart(args.src_path, bkp_meta_dirpath))
    => SourceOf(fs) = SourceOf(fs0)

C6_Witness ==
    /\ pc = "done" /\ ~dry_run /\ Undisturbed
    /\ Apart(args.src_path, dst_filepath) /\ Apart(args.src_path, bkp_meta_dirpath)
    /\ said.copy # {} /\ said.tgz # {}

\* C7: in a completed first real run, every directory of the source named in
\* gztar_list, the root included, gets exactly one .tar.gz and nothing at or
\* below the place that mirrors it in the destination.
C7_ArchiveIsolation ==
    (run = 1 /\ pc = "done" /\ ~dry_run /\ edits = <<>>)
    => \A q \in ArchiveDirs(fs) :
          /\ Cardinality(ArchivesOf(fs, q)) = 1
          /\ \A t \in DOMAIN fs : ~IsPrefix(DstOf(q), t)

\* C8: the decision is Skip exactly when the old entry is a mapping that has
\* type, size and mtime, all three equal to the new entry's; otherwise it is Copy
\* for a file or link, Archive for a directory marked gztar, and Descend for any
\* other directory, with the old entry's children, or none when it has none.
C8_Expected(new_filedata, old_ft) ==
    LET present == "x" \in Keys(old_ft)
        mapping == present /\ IsDict(old_ft.x)
        whole == mapping /\ OldKeys \subseteq Keys(old_ft.x)
    IN IF whole /\ old_ft.x.type = new_filedata.type /\ old_ft.x.size = new_filedata.size
             /\ old_ft.x.mtime_px6 = new_filedata.mtime_px6
       THEN [verdict |-> "Skip", sub_files |-> EmptyDict]
       ELSE IF new_filedata.type \in {"file", "link"}
       THEN [verdict |-> "Copy", sub_files |-> EmptyDict]
       ELSE IF new_filedata.compr_mth = "gztar"
       THEN [verdict |-> "Archive", sub_files |-> EmptyDict]
       ELSE [verdict |-> "Descend",
             sub_files |-> IF mapping /\ "sub_files" \in Keys(old_ft.x)
                           THEN old_ft.x.sub_files ELSE EmptyDict]

C8_DecisionTable ==
    probe.verdict # ""
    => /\ probe.verdict = C8_Expected(probe.new_filedata, probe.old_filetree).verdict
       /\ probe.sub_files = C8_Expected(probe.new_filedata, probe.old_filetree).sub_files

\* C9: no run aborts on a permission or not-found error of a source entry.
C9_EntryErrorIsolated ==
    ~(pc = "aborted" /\ said.error \in {"PermissionError", "FileNotFoundError"})

\* C10: a run that has ended, well or not, has said its summary.
C10_SummaryAlways ==
    pc \in {"done", "aborted"} => said.summary

----------------------------------------------------------------------------
(* The claims about the history and the names in the destination *)

\* the latest filetree file was damaged just before the current run, in one
\* of the given ways
DamagedBefore(kinds) ==
    /\ run >= 2 /\ Len(edits) >= 1
    /\ edits[Len(edits)].op = "damage"
    /\ edits[Len(edits)].at = run - 1
    /\ edits[Len(edits)].kind \in kinds

\* the source entry has been copied, archived, or entered with every file in it copied
BackedUp(p) ==
    \/ p \in said.copy \cup said.tgz
    \/ /\ p \in said.dir
       /\ \A q \in SourceFiles(fs) : Under(p, q) => q \in said.copy

\* C11: a run whose latest filetree file is missing, is no JSON, is no mapping
\* at the top, has no entry for the root, or has a root entry or a child entry
\* that is no mapping, does not fail, and once done has copied or archived every
\* entry the damage touches.
C11_BadHistoryTolerated ==
    DamagedBefore({"missing", "garbage", "shape", "noroot", "root", "child"})
    => /\ pc # "aborted"
       /\ pc = "done" =>
            \A n \in Keys(new_filetree_dict) :
                (edits[Len(edits)].kind = "child" => n = edits[Len(edits)].name)
                => BackedUp(Append(args.src_path, n))

\* the archives, and the copies, that were there when the run began and that
\* the run found under the name it was about to write
ArchiveCollisions == {t \in said.exists : t \in DOMAIN fs0 /\ "tar" \in Keys(fs0[t].data)}
CopyCollisions == {t \in said.exists : t \in DOMAIN fs0 /\ "gzip" \in Keys(fs0[t].data)}

\* C12 as claimed: an archive found under the computed name is left as it was.
C12_ArchiveKept ==
    \A t \in ArchiveCollisions : fs[t] = fs0[t]

\* C12, amended: an archive found under the computed name is reported, and but
\* for a dry run it is written again under that name by the current run.
C12_ArchiveRewritten ==
    \A t \in ArchiveCollisions :
        IF dry_run THEN fs[t] = fs0[t]
        ELSE /\ "tar" \in Keys(fs[t].data)
             /\ fs[t].mtime = time_time
             /\ fs[t] # fs0[t]

C12_Witness ==
    /\ pc = "done" /\ ~dry_run /\ run = 2
    /\ ArchiveCollisions # {}

\* C13: no copy is written under a name that a copy in the destination has already.
C13_UniqueNames ==
    CopyCollisions = {}

\* the historical filetree files of the root
Hist(F) ==
    {p \in DOMAIN F :
        /\ Len(p) > 0 /\ Parent(p) = bkp_meta_dirpath
        /\ \E st \in Stamps : Base(p) = src_filename \o ".filetree.bkp" \o st \o ".json"}

\* C14: no step changes or removes a historical filetree file; a real run that
\* is done has added exactly one, its own, and the latest filetree file holds
\* the same document, which is the filetree scanned by this run.
C14_ManifestHistory ==
    /\ [][\A p \in Hist(fs) : p \in DOMAIN fs' /\ fs'[p] = fs[p]]_vars
    /\ []((pc = "done" /\ ~dry_run)
            => /\ Hist(fs) \ Hist(fs0) = {new_filetree_filename}
               /\ lexists(fs, latest_filetree_filename)
               /\ fs[latest_filetree_filename].data = fs[new_filetree_filename].data
               /\ Without(fs[new_filetree_filename].data, "_meta_") = new_filetree)

C14_Witness ==
    /\ pc = "done" /\ ~dry_run /\ run = 2
    /\ Cardinality(Hist(fs)) = 2
    /\ said.copy # {}

\* C15 as claimed: with an old entry that lacks type, size or mtime_px6, nothing
\* at or below that entry is copied, archived or entered, and the latest
\* filetree file is left as it was.
C15_SchemaFatal ==
    DamagedBefore({"strip"})
    => /\ ~(\E p \in said.copy \cup said.tgz \cup said.dir :
               IsPrefix(Append(args.src_path, edits[Len(edits)].name), p))
       /\ Latest(fs) = Latest(fs0)

\* C15, amended: with an old entry that lacks type, size or mtime_px6 the run
\* does not fail; once done it has copied the file, archived the archived
\* directory or entered the directory, and a real run has promoted its filetree.
C15_MissingKeyForcesBackup ==
    DamagedBefore({"strip"})
    => /\ pc # "aborted"
       /\ pc = "done" =>
            /\ Append(args.src_path, edits[Len(edits)].name)
                  \in said.copy \cup said.tgz \cup said.dir
            /\ ~dry_run => /\ lexists(fs, latest_filetree_filename)
                            /\ fs[latest_filetree_filename].data = fs[new_filetree_filename].data

C15_Witness ==
    /\ DamagedBefore({"strip"})
    /\ pc = "done" /\ ~dry_run
    /\ said.copy # {}

----------------------------------------------------------------------------
(* The claims about the scan *)

Scanned == probe.verdict \in {"scanned", "loaded"}

\* a link whose target is not there
Dangling(F, p) == islink(F, p) /\ stat(F, p).err = "FileNotFoundError"
\* a file, or a link to one, that cannot be opened for reading
UnreadableLeaf(F, p) ==
    lexists(F, p) /\ stat(F, p).err = "" /\ stat(F, p).node.type = "file"
    /\ ~stat(F, p).node.readable

\* C16: the scan of a path gives None, and does not raise, when the name is in
\* ignore_list, the path does not exist, the path is a dangling link or the path
\* is a leaf that cannot be read; and such a path is no child of its parent's entry.
C16_AbsentCases ==
    Scanned =>
      \A p \in DOMAIN probe.scan :
        (\/ Base(p) \in ignore_list \/ ~lexists(fs, p)
         \/ Dangling(fs, p) \/ UnreadableLeaf(fs, p))
        => /\ probe.scan[p].ret = "None"
           /\ (Under(SourceTop, p) /\ Parent(p) \in DOMAIN probe.scan)
                => /\ probe.scan[Parent(p)].ret = "ok"
                   /\ Base(p) \notin Keys(probe.scan[Parent(p)].ft.sub_files)

\* C17: every link whose target is there, or which points to itself, is
\* recorded as an entry without children, and the filetree of the source does
\* not depend on anything that lies outside the source.
C17_LinksNotFollowed ==
    Scanned =>
      /\ \A p \in DOMAIN probe.scan :
            (islink(fs, p) /\ ~Dangling(fs, p) /\ Parent(p) = SourceTop)
            => /\ probe.scan[p].ret = "ok"
               /\ "sub_files" \notin Keys(probe.scan[p].ft)
      /\ probe.scan_moved = probe.scan[SourceTop]

\* the entries below p (p included) that the scan of p records: none under an
\* ignored name, none below an archived directory, no leaf that cannot be read
Recorded(F, p) ==
    {q \in Subtree(F, p) :
        /\ \A i \in (Len(p) + 1)..Len(q) : q[i] \notin ignore_list
        /\ \A i \in Len(p)..(Len(q) - 1) : q[i] \notin gztar_list
        /\ F[q].type # "dir" => open_rb(F, q) = ""}
\* everything whose size the scan of p adds up: the recorded entries and all
\* that lies below the archived ones
Sized(F, p) ==
    {q \in Subtree(F, p) :
        \E a \in Recorded(F, p) :
            \/ a = q
            \/ F[a].type = "dir" /\ Base(a) \in gztar_list /\ IsPrefix(a, q)}
NoLinkArchived(F, p) == \A q \in Sized(F, p) \ Recorded(F, p) : ~islink(F, q)

\* C18 as claimed: no_f is 1 for a file or link, and for a directory the number
\* of files and links recorded below it.
C18_FileCountLeaves ==
    Scanned =>
      \A p \in DOMAIN probe.scan :
        probe.scan[p].ret = "ok"
        => probe.scan[p].ft.no_f =
             IF probe.scan[p].ft.type # "dir" THEN 1
             ELSE Cardinality({q \in Recorded(fs, p) : fs[q].type # "dir"})

\* C18, amended: no_f is the number of entries recorded at and below the path:
\* 1 for a file or link, 1 for an archived directory, and for any other
\* directory 1 for itself plus the no_f of its children.
C18_FileCountEntries ==
    Scanned =>
      \A p \in DOMAIN probe.scan :
        probe.scan[p].ret = "ok"
        => probe.scan[p].ft.no_f = Cardinality(Recorded(fs, p))

C18_Witness ==
    /\ Scanned
    /\ probe.scan[SourceTop].ret = "ok"
    /\ probe.scan[SourceTop].ft.no_f = 6
    /\ probe.scan[<<"s", "d">>].ft.no_f = 2
    /\ probe.scan[<<"s", ".git">>].ft.no_f = 1

\* C19 as claimed: the size of a file is its own, the size of a directory is
\* the sum of the sizes of all that lies below it and nothing more.
C19_SizeDescendants ==
    Scanned =>
      \A p \in DOMAIN probe.scan :
        (probe.scan[p].ret = "ok" /\ NoLinkArchived(fs, p))
        => probe.scan[p].ft.size =
             IF probe.scan[p].ft.type # "dir" THEN stat(fs, p).node.size
             ELSE SumOver([q \in Sized(fs, p) \ {p} |-> stat(fs, q).node.size],
                          Sized(fs, p) \ {p})

\* C19, amended: the size of a directory is its own st_size plus the sizes of
\* the entries recorded below it, directories with their own st_size, and for
\* an archived directory that holds no link its own st_size plus the st_size of
\* every file and directory below it.
C19_SizeWithOwn ==
    Scanned =>
      \A p \in DOMAIN probe.scan :
        (probe.scan[p].ret = "ok" /\ NoLinkArchived(fs, p))
        => probe.scan[p].ft.size =
             SumOver([q \in Sized(fs, p) |-> stat(fs, q).node.size], Sized(fs, p))

C19_Witness ==
    /\ Scanned
    /\ probe.scan[SourceTop].ret = "ok"
    /\ NoLinkArchived(fs, SourceTop)
    /\ islink(fs, <<"s", "l">>)
    /\ probe.scan[<<"s", ".git">>].ft.size = 2
    /\ probe.scan[<<"s", "d">>].ft.size = 2
    /\ probe.scan[SourceTop].ft.size >= 6

RECURSIVE SameTree(_, _)
\* two entries alike in type, size, mtime and names of children, all the way down
SameTree(a, b) ==
    /\ IsDict(a) /\ IsDict(b)
    /\ {"type", "size", "mtime_px6"} \subseteq Keys(a) \cap Keys(b)
    /\ a.type = b.type /\ a.size = b.size /\ a.mtime_px6 = b.mtime_px6
    /\ ("sub_files" \in Keys(a)) = ("sub_files" \in Keys(b))
    /\ "sub_files" \in Keys(a)
         => /\ Keys(a.sub_files) = Keys(b.sub_files)
            /\ \A n \in Keys(a.sub_files) : SameTree(a.sub_files[n], b.sub_files[n])

\* C20: the filetree of any source, written by json_dump and read by json_load,
\* comes back with the same type, size, mtime and names of children in every entry.
C20_RoundTrip ==
    probe.verdict = "loaded"
    => /\ probe.loaded.ret = "ok"
       /\ src_filename \in Keys(probe.loaded.doc)
       /\ SameTree(probe.loaded.doc[src_filename], probe.scan[SourceTop].ft)

----------------------------------------------------------------------------
(* Claims about whole runs: the kind of source, the comparison mode, the order
   of the entries, the counts *)

\* C21: a run whose src_path names one regular file ends without an error, and
\* when it is no dry run the destination then holds a gzip copy of that file.
C21_SingleFile ==
    (run > 0 /\ Ended /\ Undisturbed /\ fs0[args.src_path].type = "file")
        => /\ pc = "done"
           /\ ~dry_run => \E t \in DOMAIN fs :
                             /\ Under(args.dst_path, t)
                             /\ fs[t].data = [gzip |-> fs[args.src_path].data]

\* the old entry of a child of the root is a mapping that is not empty
HasOldEntry(n) == Keys(old_filedata_of(old_filetree_dict, n)) # {}

\* C22 as stated: every run on a directory asked for with filecmp_shallow false
\* ends with NotImplementedError, a first run with no latest filetree included.
C22_AlwaysNotImplemented ==
    (~args.filecmp_shallow /\ args.src_path = SourceTop /\ run > 0 /\ Ended)
        => (pc = "aborted" /\ said.error = "NotImplementedError")

\* C22: a run asked for with filecmp_shallow false ends with NotImplementedError
\* exactly when some entry of the new filetree has an old entry that is a mapping
\* with at least one key; without such an entry (a first run, a lost or emptied
\* latest filetree) the pass returns its counts as a shallow run does.
C22_DeepNeedsOldEntry ==
    ~args.filecmp_shallow =>
        /\ pc \in {"summary", "update", "done"}
              => \A n \in Keys(new_filetree_dict) : ~HasOldEntry(n)
        /\ (pc = "aborted" /\ said.error = "NotImplementedError")
              => \E n \in Keys(new_filetree_dict) : HasOldEntry(n)

C22_Witness ==
    /\ ~args.filecmp_shallow
    /\ run = 2 /\ AfterFullRun
    /\ pc = "aborted" /\ said.error = "NotImplementedError"
    /\ edits = <<>>

\* the destination as the pass finds it: the state at the start of the call,
\* with dst_filepath made by lines 574-578 unless the run is a dry run
PassStart(dry) ==
    IF dry \/ isdir(fs0, dst_filepath) \/ makedirs_raises(fs0, dst_filepath) THEN fs0
    ELSE makedirs(fs0, dst_filepath, time_time)

\* the pass of the current call computed in one fixed order of the entries
PassOf(dry) ==
    _backup_sub(PassStart(dry), args.src_path, dst_filepath, new_filetree_dict,
                old_filetree_dict, args.filecmp_shallow, dry, time_time)

\* everything at and below dst_filepath
DstPart(F) == [t \in Subtree(F, dst_filepath) |-> F[t]]

VerdictsSaid == [skip |-> said.skip, copy |-> said.copy, tgz |-> said.tgz, dir |-> said.dir]

C25_UpToDate ==
    (pc = "done" /\ ~dry_run /\ Undisturbed /\ (run = 1 \/ AfterFullRun))
        => \A p \in SourceFiles(fs) :
              (/\ fs[p].readable
               /\ \A q \in ArchiveDirs(fs) : ~Under(q, p)
               /\ Keys(EntryAt(new_filetree, p)) # {})
                  => lexists(fs, _get_bkp_filename(DstOf(p),
                                    _get_timestamp_str_from_px6(_get_timestamp_px6(fs[p].mtime)),
                                    "gzip"))

\* C26: once the pass has returned and the root is counted, skipped + copied +
\* archived + entered is the no_f of the root entry, the total the summary gives.
C26_CountConservation ==
    pc \in {"update", "done"}
        => /\ counts.no_skip + counts.no_copy + counts.no_tgz + counts.no_dir = said.total
           /\ said.total = new_filetree[src_filename].no_f

C26_Witness ==
    /\ pc = "done" /\ run = 2 /\ AfterFullRun
    /\ counts.no_skip > 0
    /\ counts.no_dir > 1
    /\ said.total > 4

C28_DirectoryBeforeChildren ==
    /\ []((~dry_run /\ pc = "sub")
             => \A i \in 1..Len(stack) : isdir(fs, stack[i].dst_path))
    /\ [][(~dry_run /\ pc = "sub")
             => \A t \in DOMAIN fs' \ DOMAIN fs : isdir(fs, Parent(t))]_vars

C28_Witness ==
    /\ ~dry_run /\ pc = "sub"
    /\ Len(stack) = 2
    /\ ~lexists(fs0, Top.dst_path)
    /\ Top.todo # Keys(Top.new_filetree)
    /\ said.copy # {}

\* the names of the copies and archives of source entry p, for any time stamp
ArtifactsOf(p) ==
    {_get_bkp_filename(DstOf(p), st, c) : st \in Stamps, c \in {"gzip", ""}}
    \cup {TarGz(_get_bkp_filename(DstOf(p), st, "")) : st \in Stamps}

\* C30: a step that skips an entry leaves the filesystem as it is, says no
\* other verdict and no directory made, and adds the no_f of the entry to
\* no_skip and nothing to the other counts; when the pass has returned, nothing
\* at or below the destination of a skipped entry, and no copy or archive of
\* it, is other than it was when the run began, and no entry below a skipped
\* one was given a verdict.
C30_SkipTouchesNothing ==
    /\ [][\A p \in said'.skip \ said.skip :
             /\ fs' = fs
             /\ Len(stack') = Len(stack)
             /\ Top' = [Top EXCEPT !.todo = @ \ {Base(p)},
                                   !.no_skip = @ + EntryAt(new_filetree, p).no_f]
             /\ said' = [said EXCEPT !.skip = @ \cup {p}]]_vars
    /\ []((pc \in {"summary", "update", "done"} /\ Undisturbed)
             => \A p \in said.skip :
                  /\ \A t \in DOMAIN fs :
                        (IsPrefix(DstOf(p), t) \/ t \in ArtifactsOf(p))
                            => (t \in DOMAIN fs0 /\ fs[t] = fs0[t])
                  /\ \A q \in said.skip \cup said.copy \cup said.tgz \cup said.dir :
                        ~Under(p, q))

C30_Witness ==
    /\ pc = "done" /\ ~dry_run /\ run = 2
    /\ <<"s", "d">> \in said.skip
    /\ EntryAt(new_filetree, <<"s", "d">>).no_f > 1
    /\ said.copy # {}
    /\ isdir(fs0, DstOf(<<"s", "d">>))

----------------------------------------------------------------------------
(* Claims about two calls running at once *)

BothDone == \A c \in Callers : calls[c].pc = "done"
HistoricalOf(c) == fs[new_filetree_filename_at(calls[c].time)].data
SnapshotOf(c) == json_dump(calls[c].new_filetree).doc

\* C24: with no lock between two calls, the historical filetree file of each call
\* holds the scan of that call, and once both calls are done the latest
\* filetree file holds the scan of the call that copied its file last, whichever
\* scanned first; when both calls archive a directory under the same mtime, both
\* write the same archive file.
C24_LastUpdateWins ==
    /\ \A c \in Callers :
          calls[c].pc \in {"read", "pass", "update", "done"}
              => HistoricalOf(c) = SnapshotOf(c)
    /\ BothDone
          => \A c \in Callers : calls[c].updated = 2 => Latest(fs).data = SnapshotOf(c)
    /\ BothDone
          => \A c, o \in Callers :
                (/\ calls[c].counts.no_tgz > 0 /\ calls[o].counts.no_tgz > 0
                 /\ EntryAt(calls[c].new_filetree, <<"s", ".git">>).mtime_utc
                        = EntryAt(calls[o].new_filetree, <<"s", ".git">>).mtime_utc)
                    => (calls[c].wrote = calls[o].wrote /\ calls[c].wrote # {})

\* the call that began and scanned first copied its file last: the latest
\* filetree is its scan, not the newest historical one, and both calls wrote
\* the same archive
C24_Witness ==
    /\ BothDone
    /\ \E c, o \in Callers :
          /\ calls[c].began = 1 /\ calls[c].scanned = 1 /\ calls[c].updated = 2
          /\ calls[o].began = 2 /\ calls[o].scanned = 2 /\ calls[o].updated = 1
          /\ Latest(fs).data = HistoricalOf(c)
          /\ Latest(fs).data # HistoricalOf(o)
          /\ calls[c].wrote \cap calls[o].wrote # {}

----------------------------------------------------------------------------
(* Claims about the compression method of the entries *)

\* the entries of a filetree with their names, the root included
RECURSIVE EntriesOf(_, _)
EntriesOf(name, ft) ==
    {<<name, ft>>}
    \cup (IF "sub_files" \in Keys(ft)
          THEN UNION {EntriesOf(n, ft.sub_files[n]) : n \in Keys(ft.sub_files)}
          ELSE {})

\* every entry of every scan that gave a filetree
ScannedEntries ==
    UNION {EntriesOf(probe.scan[q].name, probe.scan[q].ft) :
              q \in {q \in DOMAIN probe.scan : probe.scan[q].ret = "ok"}}

\* C29: in every filetree an entry has compr_mth 'gztar' exactly when it is a
\* directory whose name is in gztar_list, and then it has no children; an entry
\* of a file or link has 'gzip' even under a name of gztar_list; no directory has
\* 'gzip'; and a name of ignore_list has no entry, in gztar_list or not.
C29_ArchiveMode ==
    Scanned =>
        /\ \A ne \in ScannedEntries :
              LET name == ne[1]
                  e == ne[2]
              IN /\ e.compr_mth = "gztar" <=> (e.type = "dir" /\ name \in gztar_list)
                 /\ e.compr_mth = "gztar" => (e.sub_files = EmptyDict /\ e.no_f = 1)
                 /\ e.type \in {"file", "link"} => e.compr_mth = "gzip"
                 /\ e.type = "dir" => e.compr_mth # "gzip"
                 /\ name \notin ignore_list
        /\ \A q \in DOMAIN probe.scan :
              Base(q) \in ignore_list => probe.scan[q] = RetNone

C29_Witness ==
    /\ Scanned
    /\ \E ne \in ScannedEntries : ne[1] = ".git" /\ ne[2].type = "file"
    /\ \E ne \in ScannedEntries : ne[1] = ".git" /\ ne[2].type = "dir"
    /\ \E ne \in ScannedEntries : ne[1] = "l" /\ islink(fs, <<"s", "l">>)
    /\ isdir(fs, <<"s", ".ipynb_checkpoints">>)
    /\ ".ipynb_checkpoints" \in gztar_list \cap ignore_list
    /\ probe.scan[<<"s", ".ipynb_checkpoints">>] = RetNone

============================================================================
